---- MODULE Spec2Model ----
(***************************************************************************)
(* COGNESTIC 2024 analysis notebooks, as run by one Jupyter kernel.        *)
(*                                                                         *)
(* Each notebook is a list of code cells.  The kernel executes the cells   *)
(* top to bottom; a cell is a list of Python statements.  The notebooks    *)
(* are tabulated below statement by statement: what a statement reads,     *)
(* binds and deletes, what kind of work it does, and where its control     *)
(* flow goes.  The kernel is the state machine Spec.  Three further        *)
(* machines model the data computations of single cells: SpecSeed (the     *)
(* seed/target selection of the sensor connectivity notebook), SpecVAR     *)
(* (the fits and evaluations of the vector auto-regression notebook) and   *)
(* SpecEvents (annotations to events in the event array notebook).         *)
(***************************************************************************)
EXTENDS Integers, Sequences, FiniteSets, TLC

\* Number of items the iterable handed to the generator bp_gen yields
\* (one label time course per epoch).
NumItems == 2

----------------------------------------------------------------------------
\* Statements.  op: what the kernel does with the statement; kind: the
\* stage of the analysis the statement belongs to.

Instr(op, cell, kind, R, W) ==
    [op |-> op, cell |-> cell, kind |-> kind, reads |-> R, writes |-> W,
     dels |-> {}, tgt |-> 0, var |-> "", nbase |-> 0, nvar |-> "",
     cl |-> "", cr |-> "", cc |-> 0, fn |-> "", params |-> {},
     njobs |-> 0, model |-> "", msg |-> "", raises |-> {}, exc |-> "",
     iname |-> "", ivalue |-> 0]

\* A simple statement: evaluates R, binds W.
Stmt(cell, kind, R, W) ==
    Instr("exec", cell, kind, R, W)

\* import / from ... import: binds the imported names.
Import(cell, W) ==
    Instr("exec", cell, "import", {}, W)

\* del a, b
Del(cell, D) ==
    [Instr("exec", cell, "del", D, {}) EXCEPT !.dels = D]

\* print(...): msg is the first line of the text when it is a literal.
PrintStmt(cell, R, msg) ==
    [Instr("exec", cell, "print", R, {}) EXCEPT !.msg = msg]

\* n_jobs as the notebooks' texts announce it: 2 parallel jobs.
ParallelJobs(n) ==
    IF n = 0 THEN 0 ELSE n + 1

\* The n_jobs argument a library call receives (0: none passed).
JobsArg(n) ==
    n

\* model as the VAR notebook's text announces it for the second fit.
ModelDynamic(m) ==
    IF m = "" THEN "" ELSE "dynamic"

\* The model argument a library call receives ("": none passed).
ModelArg(m) ==
    m

\* A call of a connectivity estimator of mne_connectivity.  njobs: the
\* n_jobs argument, model: the model argument ("" when not passed),
\* raises: the exceptions the enclosing try statement expects of it.
LibCall(cell, fn, R, W, njobs, model, raises) ==
    [Instr("exec", cell, "call", R, W) EXCEPT
        !.fn = fn, !.njobs = JobsArg(njobs), !.model = ModelArg(model),
        !.raises = raises]

\* A statement binding an integer the loops below it count with.
IntStmt(cell, kind, R, W, name, value) ==
    [Instr("exec", cell, kind, R, W) EXCEPT !.iname = name, !.ivalue = value]

\* for var in <iterable>: the iterable has nbase + nvar items, tgt is the
\* statement after the loop.
For(cell, R, var, nbase, nvar, tgt) ==
    [Instr("for", cell, "ctrl", R, {var}) EXCEPT
        !.var = var, !.nbase = nbase, !.nvar = nvar, !.tgt = tgt]

\* End of a loop body: back to the for statement at tgt.
EndFor(cell, tgt) ==
    [Instr("next", cell, "ctrl", {}, {}) EXCEPT !.tgt = tgt]

\* continue
Continue(cell, tgt) ==
    [Instr("jump", cell, "ctrl", {}, {}) EXCEPT !.tgt = tgt]

\* if cl == cr + cc: ... ; tgt is the statement after the body.
IfStmt(cell, R, cl, cr, cc, tgt) ==
    [Instr("if", cell, "ctrl", R, {}) EXCEPT
        !.cl = cl, !.cr = cr, !.cc = cc, !.tgt = tgt]

\* try: ... except exc: the handler starts at tgt.
Try(cell, exc, tgt) ==
    [Instr("try", cell, "ctrl", {}, {}) EXCEPT !.exc = exc, !.tgt = tgt]

\* End of the try body: skip the handler.
EndTry(cell, tgt) ==
    [Instr("endtry", cell, "ctrl", {}, {}) EXCEPT !.tgt = tgt]

\* except exc as name:
ExceptClause(cell, exc, W) ==
    [Instr("except", cell, "ctrl", {}, W) EXCEPT !.exc = exc]

\* End of the handler: Python unbinds the name of the except clause.
EndExcept(cell, D) ==
    [Instr("endexcept", cell, "ctrl", {}, {}) EXCEPT !.dels = D]

\* def fn(params): the body follows, tgt is the statement after it.
Def(cell, fn, params, tgt) ==
    [Instr("def", cell, "def", {}, {fn}) EXCEPT
        !.fn = fn, !.params = params, !.tgt = tgt]

\* A statement that calls the notebook's own function fn.
Call(cell, kind, R, W, fn) ==
    [Instr("call", cell, kind, R, W) EXCEPT !.fn = fn]

\* return / end of a function body.
Return(cell, kind, R) ==
    Instr("ret", cell, kind, R, {})

----------------------------------------------------------------------------
\* EEGMEG3-timefrequency/2/1_mne_inverse_coherence_epochs.ipynb: the statements of the code cells, in order.
CoherenceNb ==
  <<
    \* ---- cell 2 (lines 18-18) ----
    Import(2, {"mne"}),
      \* 1: import mne
    Import(2, {"np"}),
      \* 2: import numpy as np
    Import(2, {"sample"}),
      \* 3: from mne.datasets import sample
    Import(2, {"apply_inverse", "apply_inverse_epochs", "read_inverse_operator"}),
      \* 4: from mne.minimum_norm import apply_inverse, apply_inverse_epochs, read_inverse
    Import(2, {"seed_target_indices", "spectral_connectivity_epochs"}),
      \* 5: from mne_connectivity import seed_target_indices, spectral_connectivity_epochs
    PrintStmt(2, {"__doc__", "print"}, "<value>"),
      \* 6: print(__doc__)
    \* ---- cell 4 (lines 36-36) ----
    Stmt(4, "load", {"sample"}, {"data_path"}),
      \* 7: data_path = sample.data_path()
    Stmt(4, "derive", {"data_path"}, {"subjects_dir"}),
      \* 8: subjects_dir = data_path / "subjects"
    Stmt(4, "derive", {"data_path"}, {"fname_inv"}),
      \* 9: fname_inv = data_path / "MEG/sample/sample_audvis-meg-oct-6-meg-inv.fif"
    Stmt(4, "derive", {"data_path"}, {"fname_raw"}),
      \* 10: fname_raw = data_path / "MEG/sample/sample_audvis_filt-0-40_raw.fif"
    Stmt(4, "derive", {"data_path"}, {"fname_event"}),
      \* 11: fname_event = data_path / "MEG/sample/sample_audvis_filt-0-40_raw-eve.fif"
    Stmt(4, "config", {}, {"label_name_lh"}),
      \* 12: label_name_lh = "Aud-lh"
    Stmt(4, "derive", {"data_path", "label_name_lh"}, {"fname_label_lh"}),
      \* 13: fname_label_lh = data_path / f"MEG/sample/labels/{label_name_lh}.label"
    Stmt(4, "config", {}, {"event_id", "tmax", "tmin"}),
      \* 14: event_id, tmin, tmax = 1, -0.2, 0.5
    Stmt(4, "config", {}, {"method"}),
      \* 15: method = "dSPM"
    Stmt(4, "load", {"fname_inv", "read_inverse_operator"}, {"inverse_operator"}),
      \* 16: inverse_operator = read_inverse_operator(fname_inv)
    Stmt(4, "load", {"fname_label_lh", "mne"}, {"label_lh"}),
      \* 17: label_lh = mne.read_label(fname_label_lh)
    Stmt(4, "load", {"fname_raw", "mne"}, {"raw"}),
      \* 18: raw = mne.io.read_raw_fif(fname_raw)
    Stmt(4, "load", {"fname_event", "mne"}, {"events"}),
      \* 19: events = mne.read_events(fname_event)
    Stmt(4, "derive", {"raw"}, {"raw"}),
      \* 20: raw.info["bads"] += ["MEG 2443"]
    Stmt(4, "load", {"mne", "raw"}, {"picks"}),
      \* 21: picks = mne.pick_types(
    Stmt(4, "load", {"dict", "event_id", "events", "mne", "picks", "raw", "tmax", "tmin"}, {"epochs"}),
      \* 22: epochs = mne.Epochs(
    \* ---- cell 6 (lines 54-54) ----
    Stmt(6, "config", {}, {"snr"}),
      \* 23: snr = 3.0
    Stmt(6, "config", {"snr"}, {"lambda2"}),
      \* 24: lambda2 = 1.0 / snr**2
    Stmt(6, "load", {"epochs"}, {"evoked"}),
      \* 25: evoked = epochs.average()
    Stmt(6, "call", {"apply_inverse", "evoked", "inverse_operator", "lambda2", "method"}, {"stc"}),
      \* 26: stc = apply_inverse(evoked, inverse_operator, lambda2, method, pick_ori="norma
    Stmt(6, "derive", {"label_lh", "stc"}, {"stc_label"}),
      \* 27: stc_label = stc.in_label(label_lh)
    Stmt(6, "derive", {"np", "stc_label"}, {"src_pow"}),
      \* 28: src_pow = np.sum(stc_label.data**2, axis=1)
    Stmt(6, "derive", {"np", "src_pow", "stc_label"}, {"seed_vertno"}),
      \* 29: seed_vertno = stc_label.vertices[0][np.argmax(src_pow)]
    Stmt(6, "derive", {"np", "seed_vertno", "stc"}, {"seed_idx"}),
      \* 30: seed_idx = np.searchsorted(stc.vertices[0], seed_vertno)
    Stmt(6, "derive", {"stc"}, {"n_sources"}),
      \* 31: n_sources = stc.data.shape[0]
    Stmt(6, "derive", {"n_sources", "np", "seed_idx", "seed_target_indices"}, {"indices"}),
      \* 32: indices = seed_target_indices([seed_idx], np.arange(n_sources))
    \* ---- cell 8 (lines 72-72) ----
    Stmt(8, "config", {}, {"snr"}),
      \* 33: snr = 1.0
    Stmt(8, "config", {"snr"}, {"lambda2"}),
      \* 34: lambda2 = 1.0 / snr**2
    Stmt(8, "call", {"apply_inverse_epochs", "epochs", "inverse_operator", "lambda2", "method"}, {"stcs"}),
      \* 35: stcs = apply_inverse_epochs(
    \* ---- cell 10 (lines 90-90) ----
    Stmt(10, "config", {}, {"fmin"}),
      \* 36: fmin = (8.0, 13.0)
    Stmt(10, "config", {}, {"fmax"}),
      \* 37: fmax = (13.0, 30.0)
    Stmt(10, "derive", {"raw"}, {"sfreq"}),
      \* 38: sfreq = raw.info["sfreq"]
    LibCall(10, "spectral_connectivity_epochs", {"fmax", "fmin", "indices", "sfreq", "spectral_connectivity_epochs", "stcs"}, {"coh"}, 1, "", {}),
      \* 39: coh = spectral_connectivity_epochs(
    Stmt(10, "derive", {"coh"}, {"freqs"}),
      \* 40: freqs = coh.freqs
    PrintStmt(10, {"print"}, "Frequencies in Hz over which coherence was averaged for alpha:"),
      \* 41: print("Frequencies in Hz over which coherence was averaged for alpha: ")
    PrintStmt(10, {"freqs", "print"}, "<value>"),
      \* 42: print(freqs[0])
    PrintStmt(10, {"print"}, "Frequencies in Hz over which coherence was averaged for beta:"),
      \* 43: print("Frequencies in Hz over which coherence was averaged for beta: ")
    PrintStmt(10, {"freqs", "print"}, "<value>"),
      \* 44: print(freqs[1])
    \* ---- cell 12 (lines 108-108) ----
    Stmt(12, "derive", {"freqs", "np"}, {"tmin"}),
      \* 45: tmin = np.mean(freqs[0])
    Stmt(12, "derive", {"freqs", "np", "tmin"}, {"tstep"}),
      \* 46: tstep = np.mean(freqs[1]) - tmin
    Stmt(12, "derive", {"coh", "mne", "stc", "tmin", "tstep"}, {"coh_stc"}),
      \* 47: coh_stc = mne.SourceEstimate(
    Stmt(12, "plot", {"coh_stc", "dict", "subjects_dir"}, {"brain"}),
      \* 48: brain = coh_stc.plot(
    Stmt(12, "plot", {"brain"}, {})
      \* 49: brain.show_view("lateral")
  >>

\* EEGMEG3-timefrequency/2/2_mne_inverse_connectivity_spectrum.ipynb: the statements of the code cells, in order.
SpectrumNb ==
  <<
    \* ---- cell 2 (lines 18-18) ----
    Import(2, {"plt"}),
      \* 1: import matplotlib.pyplot as plt
    Import(2, {"mne"}),
      \* 2: import mne
    Import(2, {"sample"}),
      \* 3: from mne.datasets import sample
    Import(2, {"apply_inverse_epochs", "read_inverse_operator"}),
      \* 4: from mne.minimum_norm import apply_inverse_epochs, read_inverse_operator
    Import(2, {"spectral_connectivity_epochs"}),
      \* 5: from mne_connectivity import spectral_connectivity_epochs
    PrintStmt(2, {"__doc__", "print"}, "<value>"),
      \* 6: print(__doc__)
    Stmt(2, "load", {"sample"}, {"data_path"}),
      \* 7: data_path = sample.data_path()
    Stmt(2, "derive", {"data_path"}, {"subjects_dir"}),
      \* 8: subjects_dir = data_path / "subjects"
    Stmt(2, "derive", {"data_path"}, {"fname_inv"}),
      \* 9: fname_inv = data_path / "MEG/sample/sample_audvis-meg-oct-6-meg-inv.fif"
    Stmt(2, "derive", {"data_path"}, {"fname_raw"}),
      \* 10: fname_raw = data_path / "MEG/sample/sample_audvis_filt-0-40_raw.fif"
    Stmt(2, "derive", {"data_path"}, {"fname_event"}),
      \* 11: fname_event = data_path / "MEG/sample/sample_audvis_filt-0-40_raw-eve.fif"
    Stmt(2, "load", {"fname_inv", "read_inverse_operator"}, {"inverse_operator"}),
      \* 12: inverse_operator = read_inverse_operator(fname_inv)
    Stmt(2, "load", {"fname_raw", "mne"}, {"raw"}),
      \* 13: raw = mne.io.read_raw_fif(fname_raw)
    Stmt(2, "load", {"fname_event", "mne"}, {"events"}),
      \* 14: events = mne.read_events(fname_event)
    Stmt(2, "derive", {"raw"}, {"raw"}),
      \* 15: raw.info["bads"] += ["MEG 2443"]
    Stmt(2, "load", {"mne", "raw"}, {"picks"}),
      \* 16: picks = mne.pick_types(
    Stmt(2, "config", {}, {"event_id", "tmax", "tmin"}),
      \* 17: event_id, tmin, tmax = 1, -0.2, 0.5
    Stmt(2, "load", {"dict", "event_id", "events", "mne", "picks", "raw", "tmax", "tmin"}, {"epochs"}),
      \* 18: epochs = mne.Epochs(
    Stmt(2, "config", {}, {"snr"}),
      \* 19: snr = 1.0
    Stmt(2, "config", {"snr"}, {"lambda2"}),
      \* 20: lambda2 = 1.0 / snr**2
    Stmt(2, "config", {}, {"method"}),
      \* 21: method = "dSPM"
    Stmt(2, "call", {"apply_inverse_epochs", "epochs", "inverse_operator", "lambda2", "method"}, {"stcs"}),
      \* 22: stcs = apply_inverse_epochs(
    Stmt(2, "config", {}, {"names"}),
      \* 23: names = ["Aud-lh", "Aud-rh", "Vis-lh", "Vis-rh"]
    Stmt(2, "load", {"data_path", "mne", "names"}, {"labels"}),
      \* 24: labels = [
    Stmt(2, "derive", {"inverse_operator"}, {"src"}),
      \* 25: src = inverse_operator["src"]
    Stmt(2, "load", {"labels", "mne", "src", "stcs"}, {"label_ts"}),
      \* 26: label_ts = mne.extract_label_time_course(
    Stmt(2, "config", {}, {"fmax", "fmin"}),
      \* 27: fmin, fmax = 7.5, 40.0
    Stmt(2, "derive", {"raw"}, {"sfreq"}),
      \* 28: sfreq = raw.info["sfreq"]
    LibCall(2, "spectral_connectivity_epochs", {"fmax", "fmin", "label_ts", "sfreq", "spectral_connectivity_epochs"}, {"con"}, 1, "", {}),
      \* 29: con = spectral_connectivity_epochs(
    Stmt(2, "derive", {"con"}, {"freqs"}),
      \* 30: freqs = con.freqs
    IntStmt(2, "derive", {"con"}, {"n_cols", "n_rows"}, "n_rows", 4),
      \* 31: n_rows, n_cols = con.get_data(output="dense").shape[:2]
    Stmt(2, "plot", {"n_cols", "n_rows", "plt"}, {"axes", "fig"}),
      \* 32: fig, axes = plt.subplots(n_rows, n_cols, sharex=True, sharey=True)
    For(2, {"n_rows", "range"}, "i", 0, "n_rows", 53),
      \* 33: for i in range(n_rows):
    For(2, {"i", "range"}, "j", 1, "i", 52),
      \* 34: for j in range(i + 1):
    IfStmt(2, {"i", "j"}, "i", "j", 0, 38),
      \* 35: if i == j:
    Stmt(2, "plot", {"axes", "i", "j"}, {}),
      \* 36: axes[i, j].set_axis_off()
    Continue(2, 34),
      \* 37: continue
    Stmt(2, "plot", {"axes", "con", "freqs", "i", "j"}, {}),
      \* 38: axes[i, j].plot(freqs, con.get_data(output="dense")[i, j, :])
    Stmt(2, "plot", {"axes", "con", "freqs", "i", "j"}, {}),
      \* 39: axes[j, i].plot(freqs, con.get_data(output="dense")[i, j, :])
    IfStmt(2, {"j"}, "j", "", 0, 43),
      \* 40: if j == 0:
    Stmt(2, "plot", {"axes", "i", "j", "names"}, {}),
      \* 41: axes[i, j].set_ylabel(names[i])
    Stmt(2, "plot", {"axes", "i", "names"}, {}),
      \* 42: axes[0, i].set_title(names[i])
    IfStmt(2, {"i", "n_rows"}, "i", "n_rows", -1, 45),
      \* 43: if i == (n_rows - 1):
    Stmt(2, "plot", {"axes", "i", "j", "names"}, {}),
      \* 44: axes[i, j].set_xlabel(names[j])
    Stmt(2, "plot", {"axes", "fmax", "fmin", "i", "j"}, {}),
      \* 45: axes[i, j].set(xlim=[fmin, fmax], ylim=[-0.2, 1])
    Stmt(2, "plot", {"axes", "fmax", "fmin", "i", "j"}, {}),
      \* 46: axes[j, i].set(xlim=[fmin, fmax], ylim=[-0.2, 1])
    For(2, {}, "f", 4, "", 51),
      \* 47: for f in [8, 12, 18, 35]:
    Stmt(2, "plot", {"axes", "f", "i", "j"}, {}),
      \* 48: axes[i, j].axvline(f, color="k")
    Stmt(2, "plot", {"axes", "f", "i", "j"}, {}),
      \* 49: axes[j, i].axvline(f, color="k")
    EndFor(2, 47),
      \* 50: (end of the body of the loop at 47)
    EndFor(2, 34),
      \* 51: (end of the body of the loop at 34)
    EndFor(2, 33),
      \* 52: (end of the body of the loop at 33)
    Stmt(2, "plot", {"plt"}, {}),
      \* 53: plt.tight_layout()
    Stmt(2, "plot", {"plt"}, {})
      \* 54: plt.show()
  >>

\* EEGMEG3-timefrequency/2/5_mne_inverse_envelope_correlation.ipynb: the statements of the code cells, in order.
EnvelopeNb ==
  <<
    \* ---- cell 2 (lines 18-18) ----
    Import(2, {"op"}),
      \* 1: import os.path as op
    Import(2, {"plt"}),
      \* 2: import matplotlib.pyplot as plt
    Import(2, {"mne"}),
      \* 3: import mne
    Import(2, {"np"}),
      \* 4: import numpy as np
    Import(2, {"apply_inverse_epochs", "make_inverse_operator"}),
      \* 5: from mne.minimum_norm import apply_inverse_epochs, make_inverse_operator
    Import(2, {"compute_proj_ecg", "compute_proj_eog"}),
      \* 6: from mne.preprocessing import compute_proj_ecg, compute_proj_eog
    Import(2, {"mne_connectivity"}),
      \* 7: import mne_connectivity
    Import(2, {"envelope_correlation"}),
      \* 8: from mne_connectivity import envelope_correlation
    Stmt(2, "load", {"mne"}, {"data_path"}),
      \* 9: data_path = mne.datasets.brainstorm.bst_resting.data_path()
    Stmt(2, "derive", {"data_path", "op"}, {"subjects_dir"}),
      \* 10: subjects_dir = op.join(data_path, "subjects")
    Stmt(2, "config", {}, {"subject"}),
      \* 11: subject = "bst_resting"
    Stmt(2, "derive", {"data_path", "op"}, {"trans"}),
      \* 12: trans = op.join(data_path, "MEG", "bst_resting", "bst_resting-trans.fif")
    Stmt(2, "derive", {"op", "subject", "subjects_dir"}, {"src"}),
      \* 13: src = op.join(subjects_dir, subject, "bem", subject + "-oct-6-src.fif")
    Stmt(2, "derive", {"op", "subject", "subjects_dir"}, {"bem"}),
      \* 14: bem = op.join(subjects_dir, subject, "bem", subject + "-5120-bem-sol.fif")
    Stmt(2, "derive", {"data_path", "op"}, {"raw_fname"}),
      \* 15: raw_fname = op.join(
    \* ---- cell 4 (lines 36-36) ----
    Stmt(4, "load", {"mne", "raw_fname"}, {"raw"}),
      \* 16: raw = mne.io.read_raw_ctf(raw_fname, verbose="error")
    Stmt(4, "load", {"raw"}, {}),
      \* 17: raw.crop(0, 60).pick_types(meg=True, eeg=False).load_data().resample(80)
    Stmt(4, "load", {"raw"}, {}),
      \* 18: raw.apply_gradient_compensation(3)
    Stmt(4, "load", {"compute_proj_ecg", "raw"}, {"_", "projs_ecg"}),
      \* 19: projs_ecg, _ = compute_proj_ecg(raw, n_grad=1, n_mag=2)
    Stmt(4, "load", {"compute_proj_eog", "raw"}, {"_", "projs_eog"}),
      \* 20: projs_eog, _ = compute_proj_eog(raw, n_grad=1, n_mag=2, ch_name="MLT31-4407")
    Stmt(4, "load", {"projs_ecg", "projs_eog", "raw"}, {}),
      \* 21: raw.add_proj(projs_ecg + projs_eog)
    Stmt(4, "load", {"raw"}, {}),
      \* 22: raw.apply_proj()
    Stmt(4, "load", {"raw"}, {}),
      \* 23: raw.filter(0.1, None)
    Stmt(4, "load", {"mne", "raw"}, {"cov"}),
      \* 24: cov = mne.compute_raw_covariance(raw)
    \* ---- cell 6 (lines 54-54) ----
    Stmt(6, "load", {"mne", "src"}, {"src"}),
      \* 25: src = mne.read_source_spaces(src)
    Stmt(6, "load", {"bem", "mne", "raw", "src", "trans"}, {"fwd"}),
      \* 26: fwd = mne.make_forward_solution(raw.info, trans, src, bem, verbose=True)
    Del(6, {"src"}),
      \* 27: del src
    Stmt(6, "load", {"cov", "fwd", "make_inverse_operator", "raw"}, {"inv"}),
      \* 28: inv = make_inverse_operator(raw.info, fwd, cov)
    Del(6, {"fwd"}),
      \* 29: del fwd
    \* ---- cell 8 (lines 72-72) ----
    Stmt(8, "config", {}, {"duration"}),
      \* 30: duration = 10.0
    Stmt(8, "load", {"duration", "mne", "raw"}, {"events"}),
      \* 31: events = mne.make_fixed_length_events(raw, duration=duration)
    Stmt(8, "derive", {"duration", "raw"}, {"tmax"}),
      \* 32: tmax = duration - 1.0 / raw.info["sfreq"]
    Stmt(8, "load", {"dict", "events", "mne", "raw", "tmax"}, {"epochs"}),
      \* 33: epochs = mne.Epochs(
    Stmt(8, "derive", {"epochs"}, {"sfreq"}),
      \* 34: sfreq = epochs.info["sfreq"]
    Del(8, {"projs_ecg", "projs_eog", "raw"}),
      \* 35: del raw, projs_ecg, projs_eog
    \* ---- cell 10 (lines 90-90) ----
    Stmt(10, "load", {"mne", "subject", "subjects_dir"}, {"labels"}),
      \* 36: labels = mne.read_labels_from_annot(subject, "aparc_sub", subjects_dir=subject
    Stmt(10, "call", {"apply_inverse_epochs", "epochs", "inv"}, {"stcs"}),
      \* 37: stcs = apply_inverse_epochs(
    Stmt(10, "load", {"inv", "labels", "mne", "stcs"}, {"label_ts"}),
      \* 38: label_ts = mne.extract_label_time_course(
    Del(10, {"stcs"}),
      \* 39: del stcs
    Def(10, "bp_gen", {"label_ts"}, 45),
      \* 40: def bp_gen(label_ts):
    For(10, {"label_ts"}, "ts", NumItems, "", 44),
      \* 41: for ts in label_ts:
    Stmt(10, "load", {"mne", "sfreq", "ts"}, {}),
      \* 42: yield mne.filter.filter_data(ts, sfreq, 14, 30)
    EndFor(10, 41),
      \* 43: (end of the body of the loop at 41)
    Return(10, "ctrl", {}),
      \* 44: (end of bp_gen)
    Call(10, "call", {"bp_gen", "envelope_correlation", "label_ts"}, {"corr_obj"}, "bp_gen"),
      \* 45: corr_obj = envelope_correlation(bp_gen(label_ts), orthogonalize="pairwise")
    Stmt(10, "call", {"corr_obj"}, {"corr"}),
      \* 46: corr = corr_obj.combine()
    Stmt(10, "derive", {"corr"}, {"corr"}),
      \* 47: corr = corr.get_data(output="dense")[:, :, 0]
    Def(10, "plot_corr", {"corr", "title"}, 53),
      \* 48: def plot_corr(corr, title):
    Stmt(10, "plot", {"plt"}, {"ax", "fig"}),
      \* 49: fig, ax = plt.subplots(figsize=(4, 4), constrained_layout=True)
    Stmt(10, "plot", {"ax", "corr", "np"}, {}),
      \* 50: ax.imshow(corr, cmap="viridis", clim=np.percentile(corr, [5, 95]))
    Stmt(10, "plot", {"fig", "title"}, {}),
      \* 51: fig.suptitle(title)
    Return(10, "ctrl", {}),
      \* 52: (end of plot_corr)
    Call(10, "plot", {"corr", "plot_corr"}, {}, "plot_corr"),
      \* 53: plot_corr(corr, "Pairwise")
    Def(10, "plot_degree", {"corr", "title"}, 60),
      \* 54: def plot_degree(corr, title):
    Stmt(10, "config", {}, {"threshold_prop"}),
      \* 55: threshold_prop = 0.15
    Stmt(10, "call", {"corr", "mne_connectivity", "threshold_prop"}, {"degree"}),
      \* 56: degree = mne_connectivity.degree(corr, threshold_prop=threshold_prop)
    Stmt(10, "call", {"degree", "labels", "mne"}, {"stc"}),
      \* 57: stc = mne.labels_to_stc(labels, degree)
    Stmt(10, "derive", {"inv", "mne", "stc"}, {"stc"}),
      \* 58: stc = stc.in_label(
    Return(10, "plot", {"dict", "stc", "subjects_dir", "title"}),
      \* 59: return stc.plot(
    Call(10, "plot", {"corr", "plot_degree"}, {"brain"}, "plot_degree"),
      \* 60: brain = plot_degree(corr, "Beta (pairwise, aparc_sub)")
    \* ---- cell 12 (lines 108-108) ----
    Stmt(12, "load", {"mne", "subject", "subjects_dir"}, {"labels"}),
      \* 61: labels = mne.read_labels_from_annot(subject, "aparc.a2009s", subjects_dir=subj
    Stmt(12, "call", {"apply_inverse_epochs", "epochs", "inv"}, {"stcs"}),
      \* 62: stcs = apply_inverse_epochs(
    Stmt(12, "load", {"inv", "labels", "mne", "stcs"}, {"label_ts"}),
      \* 63: label_ts = mne.extract_label_time_course(
    Del(12, {"epochs", "stcs"}),
      \* 64: del stcs, epochs
    Stmt(12, "call", {"label_ts", "mne_connectivity"}, {"label_ts_orth"}),
      \* 65: label_ts_orth = mne_connectivity.envelope.symmetric_orth(label_ts)
    Call(12, "call", {"bp_gen", "envelope_correlation", "label_ts_orth"}, {"corr_obj"}, "bp_gen"),
      \* 66: corr_obj = envelope_correlation(  # already orthogonalized earlier
    Stmt(12, "call", {"corr_obj"}, {"corr"}),
      \* 67: corr = corr_obj.combine()
    Stmt(12, "derive", {"corr"}, {"corr"}),
      \* 68: corr = corr.get_data(output="dense")[:, :, 0]
    Stmt(12, "derive", {"corr"}, {"corr"}),
      \* 69: corr.flat[:: corr.shape[0] + 1] = 0
    Stmt(12, "derive", {"corr", "np"}, {"corr"}),
      \* 70: corr = np.abs(corr)
    Call(12, "plot", {"corr", "plot_corr"}, {}, "plot_corr"),
      \* 71: plot_corr(corr, "Symmetric")
    Call(12, "plot", {"corr", "plot_degree"}, {}, "plot_degree")
      \* 72: plot_degree(corr, "Beta (symmetric, aparc.a2009s)")
  >>

\* EEGMEG3-timefrequency/2/11_compare_connectivity_over_time_over_trial.ipynb: the statements of the code cells, in order.
CompareNb ==
  <<
    \* ---- cell 3 (lines 25-25) ----
    Import(3, {"plt"}),
      \* 1: import matplotlib.pyplot as plt
    Import(3, {"mne"}),
      \* 2: import mne
    Import(3, {"np"}),
      \* 3: import numpy as np
    Import(3, {"sample"}),
      \* 4: from mne.datasets import sample
    Import(3, {"spectral_connectivity_epochs", "spectral_connectivity_time"}),
      \* 5: from mne_connectivity import spectral_connectivity_epochs, spectral_connectivi
    Import(3, {"plot_sensors_connectivity"}),
      \* 6: from mne_connectivity.viz import plot_sensors_connectivity
    Stmt(3, "load", {"np"}, {"rng"}),
      \* 7: rng = np.random.default_rng(1234)
    PrintStmt(3, {"__doc__", "print"}, "<value>"),
      \* 8: print(__doc__)
    \* ---- cell 5 (lines 43-43) ----
    IntStmt(5, "config", {}, {"n_epochs"}, "n_epochs", 5),
      \* 9: n_epochs = 5
    IntStmt(5, "config", {}, {"n_channels"}, "n_channels", 3),
      \* 10: n_channels = 3
    Stmt(5, "config", {}, {"n_times"}),
      \* 11: n_times = 2000
    Stmt(5, "config", {}, {"sfreq"}),
      \* 12: sfreq = 250
    Stmt(5, "load", {"n_channels", "n_epochs", "n_times", "rng"}, {"data"}),
      \* 13: data = rng.random((n_epochs, n_channels, n_times))
    For(5, {"n_epochs", "range"}, "i", 0, "n_epochs", 17),
      \* 14: for i in range(n_epochs):
    Stmt(5, "derive", {"data", "i"}, {"data"}),
      \* 15: data[i] = data[0]
    EndFor(5, 14),
      \* 16: (end of the body of the loop at 14)
    Stmt(5, "config", {}, {"ch_names"}),
      \* 17: ch_names = ["C3", "Cz", "C4"]
    Stmt(5, "load", {"ch_names", "mne", "sfreq"}, {"info"}),
      \* 18: info = mne.create_info(ch_names, sfreq, ch_types="eeg")
    Stmt(5, "load", {"data", "info", "mne"}, {"data_epoch"}),
      \* 19: data_epoch = mne.EpochsArray(data, info)
    Stmt(5, "plot", {"data_epoch"}, {}),
      \* 20: data_epoch.plot(scalings=0.75)
    \* ---- cell 7 (lines 61-61) ----
    Stmt(7, "config", {}, {"Freq_Bands"}),
      \* 21: Freq_Bands = {"theta": [4.0, 8.0], "alpha": [8.0, 13.0], "beta": [13.0, 30.0]}
    Stmt(7, "config", {"Freq_Bands", "len"}, {"n_freq_bands"}),
      \* 22: n_freq_bands = len(Freq_Bands)
    Stmt(7, "config", {"Freq_Bands", "list", "np"}, {"min_freq"}),
      \* 23: min_freq = np.min(list(Freq_Bands.values()))
    Stmt(7, "config", {"Freq_Bands", "list", "np"}, {"max_freq"}),
      \* 24: max_freq = np.max(list(Freq_Bands.values()))
    Stmt(7, "config", {"int", "max_freq", "min_freq", "np"}, {"freqs"}),
      \* 25: freqs = np.linspace(min_freq, max_freq, int((max_freq - min_freq) * 4 + 1))
    Stmt(7, "config", {"Freq_Bands", "len", "list", "range", "tuple"}, {"fmin"}),
      \* 26: fmin = tuple([list(Freq_Bands.values())[f][0] for f in range(len(Freq_Bands))]
    Stmt(7, "config", {"Freq_Bands", "len", "list", "range", "tuple"}, {"fmax"}),
      \* 27: fmax = tuple([list(Freq_Bands.values())[f][1] for f in range(len(Freq_Bands))]
    Stmt(7, "config", {}, {"connectivity_methods"}),
      \* 28: connectivity_methods = ["coh", "plv"]
    IntStmt(7, "config", {"connectivity_methods", "len"}, {"n_con_methods"}, "n_con_methods", 2),
      \* 29: n_con_methods = len(connectivity_methods)
    Stmt(7, "config", {"n_channels", "n_con_methods", "n_freq_bands", "n_times", "np"}, {"con_epochs_array"}),
      \* 30: con_epochs_array = np.zeros(
    Stmt(7, "config", {"con_epochs_array", "np"}, {"con_epochs_array"}),
      \* 31: con_epochs_array[con_epochs_array == 0] = np.nan
    LibCall(7, "spectral_connectivity_epochs", {"connectivity_methods", "data_epoch", "fmax", "fmin", "freqs", "sfreq", "spectral_connectivity_epochs"}, {"con_epochs"}, 0, "", {}),
      \* 32: con_epochs = spectral_connectivity_epochs(
    For(7, {"n_con_methods", "range"}, "c", 0, "n_con_methods", 36),
      \* 33: for c in range(n_con_methods):
    Stmt(7, "derive", {"c", "con_epochs", "con_epochs_array"}, {"con_epochs_array"}),
      \* 34: con_epochs_array[c] = con_epochs[c].get_data(output="dense")
    EndFor(7, 33),
      \* 35: (end of the body of the loop at 33)
    \* ---- cell 9 (lines 79-79) ----
    Stmt(9, "derive", {"con_epochs_array", "np"}, {"con_epochs_array"}),
      \* 36: con_epochs_array = np.mean(con_epochs_array, axis=4)
    Stmt(9, "config", {"Freq_Bands", "list"}, {"foi"}),
      \* 37: foi = list(Freq_Bands.keys()).index("alpha")
    Def(9, "plot_con_matrix", {"con_data", "n_con_methods"}, 51),
      \* 38: def plot_con_matrix(con_data, n_con_methods):
    Stmt(9, "plot", {"n_con_methods", "plt"}, {"ax", "fig"}),
      \* 39: fig, ax = plt.subplots(1, n_con_methods, figsize=(6 * n_con_methods, 6))
    For(9, {"n_con_methods", "range"}, "c", 0, "n_con_methods", 50),
      \* 40: for c in range(n_con_methods):
    Stmt(9, "plot", {"ax", "c", "con_data", "foi"}, {"con_plot"}),
      \* 41: con_plot = ax[c].imshow(con_data[c, :, :, foi], cmap="binary", vmin=0, vmax=1)
    Stmt(9, "plot", {"ax", "c", "connectivity_methods"}, {}),
      \* 42: ax[c].set_title(connectivity_methods[c])
    Stmt(9, "plot", {"ax", "c", "con_plot", "fig"}, {}),
      \* 43: fig.colorbar(con_plot, ax=ax[c], shrink=0.7, label="Connectivity")
    Stmt(9, "plot", {"ax", "c", "ch_names", "len", "range"}, {}),
      \* 44: ax[c].set_xticks(range(len(ch_names)))
    Stmt(9, "plot", {"ax", "c", "ch_names"}, {}),
      \* 45: ax[c].set_xticklabels(ch_names)
    Stmt(9, "plot", {"ax", "c", "ch_names", "len", "range"}, {}),
      \* 46: ax[c].set_yticks(range(len(ch_names)))
    Stmt(9, "plot", {"ax", "c", "ch_names"}, {}),
      \* 47: ax[c].set_yticklabels(ch_names)
    PrintStmt(9, {"c", "con_data", "connectivity_methods", "foi", "print"}, "Connectivity method:"),
      \* 48: print(
    EndFor(9, 40),
      \* 49: (end of the body of the loop at 40)
    Return(9, "ctrl", {"fig"}),
      \* 50: return fig
    Call(9, "plot", {"con_epochs_array", "n_con_methods", "plot_con_matrix"}, {}, "plot_con_matrix"),
      \* 51: plot_con_matrix(con_epochs_array, n_con_methods)
    \* ---- cell 11 (lines 97-97) ----
    Stmt(11, "config", {"n_channels", "n_con_methods", "n_epochs", "n_freq_bands", "np"}, {"con_time_array"}),
      \* 52: con_time_array = np.zeros(
    Stmt(11, "config", {"con_time_array", "np"}, {"con_time_array"}),
      \* 53: con_time_array[con_time_array == 0] = np.nan
    LibCall(11, "spectral_connectivity_time", {"connectivity_methods", "data_epoch", "fmax", "fmin", "freqs", "sfreq", "spectral_connectivity_time"}, {"con_time"}, 0, "", {}),
      \* 54: con_time = spectral_connectivity_time(
    For(11, {"n_con_methods", "range"}, "c", 0, "n_con_methods", 58),
      \* 55: for c in range(n_con_methods):
    Stmt(11, "derive", {"c", "con_time", "con_time_array"}, {"con_time_array"}),
      \* 56: con_time_array[c] = con_time[c].get_data(output="dense")
    EndFor(11, 55),
      \* 57: (end of the body of the loop at 55)
    \* ---- cell 13 (lines 115-115) ----
    Stmt(13, "derive", {"con_time_array", "np"}, {"con_time_array"}),
      \* 58: con_time_array = np.mean(con_time_array, axis=1)
    Stmt(13, "config", {"Freq_Bands", "list"}, {"foi"}),
      \* 59: foi = list(Freq_Bands.keys()).index("alpha")
    Call(13, "plot", {"con_time_array", "n_con_methods", "plot_con_matrix"}, {}, "plot_con_matrix"),
      \* 60: plot_con_matrix(con_time_array, n_con_methods)
    \* ---- cell 16 (lines 140-140) ----
    For(16, {"n_epochs", "range"}, "i", 0, "n_epochs", 70),
      \* 61: for i in range(n_epochs):  # ensure each epoch are different
    For(16, {"n_channels", "range"}, "c", 0, "n_channels", 69),
      \* 62: for c in range(n_channels):  # and each channel are also different
    Stmt(16, "config", {}, {"wave_freq"}),
      \* 63: wave_freq = 10
    Stmt(16, "config", {"n_times", "sfreq"}, {"epoch_len"}),
      \* 64: epoch_len = n_times / sfreq
    Stmt(16, "load", {"rng"}, {"phase"}),
      \* 65: phase = rng.random(1) * 10
    Stmt(16, "derive", {"epoch_len", "n_times", "np", "phase", "wave_freq"}, {"x"}),
      \* 66: x = np.linspace(
    Stmt(16, "derive", {"c", "data", "i", "np", "x"}, {"data"}),
      \* 67: data[i, c] = np.squeeze(np.sin(x))
    EndFor(16, 62),
      \* 68: (end of the body of the loop at 62)
    EndFor(16, 61),
      \* 69: (end of the body of the loop at 61)
    Stmt(16, "load", {"data", "info", "mne"}, {"data_epoch"}),
      \* 70: data_epoch = mne.EpochsArray(data, info)
    Stmt(16, "plot", {"data_epoch"}, {}),
      \* 71: data_epoch.plot(scalings=1, n_epochs=1)
    \* ---- cell 18 (lines 158-158) ----
    Stmt(18, "config", {"n_channels", "n_con_methods", "n_freq_bands", "n_times", "np"}, {"con_epochs_array"}),
      \* 72: con_epochs_array = np.zeros(
    Stmt(18, "derive", {"con_epochs_array", "np"}, {"con_epochs_array"}),
      \* 73: con_epochs_array[con_epochs_array == 0] = np.nan
    LibCall(18, "spectral_connectivity_epochs", {"connectivity_methods", "data_epoch", "fmax", "fmin", "freqs", "sfreq", "spectral_connectivity_epochs"}, {"con_epochs"}, 0, "", {}),
      \* 74: con_epochs = spectral_connectivity_epochs(
    For(18, {"n_con_methods", "range"}, "c", 0, "n_con_methods", 78),
      \* 75: for c in range(n_con_methods):
    Stmt(18, "derive", {"c", "con_epochs", "con_epochs_array"}, {"con_epochs_array"}),
      \* 76: con_epochs_array[c] = con_epochs[c].get_data(output="dense")
    EndFor(18, 75),
      \* 77: (end of the body of the loop at 75)
    Stmt(18, "derive", {"con_epochs_array", "np"}, {"con_epochs_array"}),
      \* 78: con_epochs_array = np.mean(con_epochs_array, axis=4)
    Stmt(18, "config", {"Freq_Bands", "list"}, {"foi"}),
      \* 79: foi = list(Freq_Bands.keys()).index("alpha")
    Call(18, "plot", {"con_epochs_array", "n_con_methods", "plot_con_matrix"}, {}, "plot_con_matrix"),
      \* 80: plot_con_matrix(con_epochs_array, n_con_methods)
    \* ---- cell 20 (lines 176-176) ----
    Stmt(20, "config", {"n_channels", "n_con_methods", "n_epochs", "n_freq_bands", "np"}, {"con_time_array"}),
      \* 81: con_time_array = np.zeros(
    Stmt(20, "derive", {"con_time_array", "np"}, {"con_time_array"}),
      \* 82: con_time_array[con_time_array == 0] = np.nan
    LibCall(20, "spectral_connectivity_time", {"connectivity_methods", "data_epoch", "fmax", "fmin", "freqs", "sfreq", "spectral_connectivity_time"}, {"con_time"}, 0, "", {}),
      \* 83: con_time = spectral_connectivity_time(
    For(20, {"n_con_methods", "range"}, "c", 0, "n_con_methods", 87),
      \* 84: for c in range(n_con_methods):
    Stmt(20, "derive", {"c", "con_time", "con_time_array"}, {"con_time_array"}),
      \* 85: con_time_array[c] = con_time[c].get_data(output="dense")
    EndFor(20, 84),
      \* 86: (end of the body of the loop at 84)
    Stmt(20, "derive", {"con_time_array", "np"}, {"con_time_array"}),
      \* 87: con_time_array = np.mean(con_time_array, axis=1)
    Stmt(20, "config", {"Freq_Bands", "list"}, {"foi"}),
      \* 88: foi = list(Freq_Bands.keys()).index("alpha")
    Call(20, "plot", {"con_time_array", "n_con_methods", "plot_con_matrix"}, {}, "plot_con_matrix"),
      \* 89: plot_con_matrix(con_time_array, n_con_methods)
    \* ---- cell 23 (lines 201-201) ----
    Stmt(23, "load", {"sample"}, {"data_path"}),
      \* 90: data_path = sample.data_path()
    Stmt(23, "derive", {"data_path"}, {"raw_fname"}),
      \* 91: raw_fname = data_path / "MEG/sample/sample_audvis_filt-0-40_raw.fif"
    Stmt(23, "derive", {"data_path"}, {"event_fname"}),
      \* 92: event_fname = data_path / "MEG/sample/sample_audvis_filt-0-40_raw-eve.fif"
    Stmt(23, "load", {"mne", "raw_fname"}, {"raw"}),
      \* 93: raw = mne.io.read_raw_fif(raw_fname)
    Stmt(23, "load", {"event_fname", "mne"}, {"events"}),
      \* 94: events = mne.read_events(event_fname)
    Stmt(23, "load", {"mne", "raw"}, {"picks"}),
      \* 95: picks = mne.pick_types(
    Stmt(23, "config", {}, {"event_id", "tmax", "tmin"}),
      \* 96: event_id, tmin, tmax = 3, -0.3, 1.6
    Stmt(23, "load", {"event_id", "events", "mne", "picks", "raw", "tmax", "tmin"}, {"epochs"}),
      \* 97: epochs = mne.Epochs(raw, events, event_id, tmin, tmax, picks=picks, baseline=(
    Stmt(23, "load", {"epochs"}, {}),
      \* 98: epochs.load_data()
    \* ---- cell 25 (lines 219-219) ----
    Stmt(25, "derive", {"epochs"}, {"sfreq"}),
      \* 99: sfreq = epochs.info["sfreq"]
    Stmt(25, "config", {}, {"tmin"}),
      \* 100: tmin = 0.0
    Stmt(25, "config", {}, {"Freq_Bands"}),
      \* 101: Freq_Bands = {"theta": [4.0, 8.0]}
    Stmt(25, "config", {"Freq_Bands", "len"}, {"n_freq_bands"}),
      \* 102: n_freq_bands = len(Freq_Bands)
    Stmt(25, "config", {"Freq_Bands", "list", "np"}, {"min_freq"}),
      \* 103: min_freq = np.min(list(Freq_Bands.values()))
    Stmt(25, "config", {"Freq_Bands", "list", "np"}, {"max_freq"}),
      \* 104: max_freq = np.max(list(Freq_Bands.values()))
    Stmt(25, "config", {"int", "max_freq", "min_freq", "np"}, {"freqs"}),
      \* 105: freqs = np.linspace(min_freq, max_freq, int((max_freq - min_freq) * 4 + 1))
    Stmt(25, "config", {"Freq_Bands", "len", "list", "range", "tuple"}, {"fmin"}),
      \* 106: fmin = tuple([list(Freq_Bands.values())[f][0] for f in range(len(Freq_Bands))]
    Stmt(25, "config", {"Freq_Bands", "len", "list", "range", "tuple"}, {"fmax"}),
      \* 107: fmax = tuple([list(Freq_Bands.values())[f][1] for f in range(len(Freq_Bands))]
    Stmt(25, "config", {}, {"connectivity_methods"}),
      \* 108: connectivity_methods = ["wpli"]
    IntStmt(25, "config", {"connectivity_methods", "len"}, {"n_con_methods"}, "n_con_methods", 1),
      \* 109: n_con_methods = len(connectivity_methods)
    LibCall(25, "spectral_connectivity_epochs", {"connectivity_methods", "epochs", "fmax", "fmin", "freqs", "sfreq", "spectral_connectivity_epochs", "tmin"}, {"con_epochs"}, 0, "", {}),
      \* 110: con_epochs = spectral_connectivity_epochs(
    \* ---- cell 27 (lines 237-237) ----
    Stmt(27, "derive", {"epochs"}, {"n_channels"}),
      \* 111: n_channels = epochs.info["nchan"]
    Stmt(27, "derive", {"epochs", "tmin"}, {"times"}),
      \* 112: times = epochs.times[epochs.times >= tmin]
    Stmt(27, "derive", {"n_channels"}, {"n_connections"}),
      \* 113: n_connections = (n_channels * n_channels - n_channels) / 2
    Stmt(27, "derive", {"con_epochs"}, {"con_epochs_raveled_array"}),
      \* 114: con_epochs_raveled_array = con_epochs.get_data(output="raveled")
    Stmt(27, "derive", {"con_epochs_raveled_array", "n_connections", "np"}, {"global_con_epochs"}),
      \* 115: global_con_epochs = np.sum(con_epochs_raveled_array, axis=0) / n_connections
    Stmt(27, "derive", {"global_con_epochs"}, {"global_con_epochs"}),
      \* 116: global_con_epochs = global_con_epochs[0]
    Stmt(27, "plot", {"plt"}, {"fig"}),
      \* 117: fig = plt.figure()
    Stmt(27, "plot", {"global_con_epochs", "plt", "times"}, {}),
      \* 118: plt.plot(times, global_con_epochs)
    Stmt(27, "plot", {"plt"}, {}),
      \* 119: plt.xlabel("Time (s)")
    Stmt(27, "plot", {"plt"}, {}),
      \* 120: plt.ylabel("Global theta wPLI over trials")
    Stmt(27, "derive", {"global_con_epochs", "np", "times"}, {"t_con_max"}),
      \* 121: t_con_max = np.argmax(global_con_epochs[times <= 0.5])
    PrintStmt(27, {"print", "t_con_max", "times"}, "Global theta wPLI peaks"),
      \* 122: print(f"Global theta wPLI peaks {times[t_con_max]:.3f}s after stimulus")
    \* ---- cell 29 (lines 255-255) ----
    Stmt(29, "derive", {"con_epochs", "t_con_max"}, {"con_epochs_matrix"}),
      \* 123: con_epochs_matrix = con_epochs.get_data(output="dense")[:, :, 0, t_con_max]
    Stmt(29, "plot", {"plt"}, {"fig"}),
      \* 124: fig = plt.figure()
    Stmt(29, "plot", {"con_epochs_matrix", "plt"}, {"im"}),
      \* 125: im = plt.imshow(con_epochs_matrix)
    Stmt(29, "plot", {"fig", "im"}, {}),
      \* 126: fig.colorbar(im, label="Connectivity")
    Stmt(29, "plot", {"plt"}, {}),
      \* 127: plt.ylabel("Channels")
    Stmt(29, "plot", {"plt"}, {}),
      \* 128: plt.xlabel("Channels")
    Stmt(29, "plot", {"plt"}, {}),
      \* 129: plt.show()
    Stmt(29, "plot", {"con_epochs_matrix", "epochs", "plot_sensors_connectivity"}, {})
      \* 130: plot_sensors_connectivity(epochs.info, con_epochs_matrix)
  >>

\* unnamed/part_000: the statements of the code cells, in order.
GrangerNb ==
  <<
    \* ---- cell 3 (lines 29-29) ----
    Import(3, {"mne"}),
      \* 1: import mne
    Import(3, {"np"}),
      \* 2: import numpy as np
    Import(3, {"plt"}),
      \* 3: from matplotlib import pyplot as plt
    Import(3, {"data_path"}),
      \* 4: from mne.datasets.fieldtrip_cmc import data_path
    Import(3, {"spectral_connectivity_epochs"}),
      \* 5: from mne_connectivity import spectral_connectivity_epochs
    \* ---- cell 5 (lines 47-47) ----
    Stmt(5, "load", {"data_path", "mne"}, {"raw"}),
      \* 6: raw = mne.io.read_raw_ctf(data_path() / "SubjectCMC.ds")
    Stmt(5, "load", {"raw"}, {}),
      \* 7: raw.pick("mag")
    Stmt(5, "load", {"raw"}, {}),
      \* 8: raw.crop(50.0, 110.0).load_data()
    Stmt(5, "load", {"raw"}, {}),
      \* 9: raw.notch_filter(50)
    Stmt(5, "load", {"raw"}, {}),
      \* 10: raw.resample(100)
    Stmt(5, "load", {"mne", "raw"}, {"epochs"}),
      \* 11: epochs = mne.make_fixed_length_epochs(raw, duration=2.0).load_data()
    \* ---- cell 7 (lines 65-65) ----
    Stmt(7, "derive", {"enumerate", "epochs"}, {"signals_a"}),
      \* 12: signals_a = [
    Stmt(7, "derive", {"enumerate", "epochs"}, {"signals_b"}),
      \* 13: signals_b = [
    Stmt(7, "derive", {"np", "signals_a", "signals_b"}, {"indices_ab"}),
      \* 14: indices_ab = (np.array([signals_a]), np.array([signals_b]))
    Stmt(7, "derive", {"np", "signals_a", "signals_b"}, {"indices_ba"}),
      \* 15: indices_ba = (np.array([signals_b]), np.array([signals_a]))
    LibCall(7, "spectral_connectivity_epochs", {"epochs", "indices_ab", "np", "spectral_connectivity_epochs"}, {"gc_ab"}, 0, "", {}),
      \* 16: gc_ab = spectral_connectivity_epochs(
    LibCall(7, "spectral_connectivity_epochs", {"epochs", "indices_ba", "np", "spectral_connectivity_epochs"}, {"gc_ba"}, 0, "", {}),
      \* 17: gc_ba = spectral_connectivity_epochs(
    Stmt(7, "derive", {"gc_ab"}, {"freqs"}),
      \* 18: freqs = gc_ab.freqs
    \* ---- cell 9 (lines 83-83) ----
    Stmt(9, "plot", {"plt"}, {"axis", "fig"}),
      \* 19: fig, axis = plt.subplots(1, 1)
    Stmt(9, "plot", {"axis", "freqs", "gc_ab"}, {}),
      \* 20: axis.plot(freqs, gc_ab.get_data()[0], linewidth=2)
    Stmt(9, "plot", {"axis"}, {}),
      \* 21: axis.set_xlabel("Frequency (Hz)")
    Stmt(9, "plot", {"axis"}, {}),
      \* 22: axis.set_ylabel("Connectivity (A.U.)")
    Stmt(9, "plot", {"fig"}, {}),
      \* 23: fig.suptitle("GC: [A => B]")
    \* ---- cell 11 (lines 101-101) ----
    Stmt(11, "derive", {"gc_ab", "gc_ba"}, {"net_gc"}),
      \* 24: net_gc = gc_ab.get_data() - gc_ba.get_data()
    Stmt(11, "plot", {"plt"}, {"axis", "fig"}),
      \* 25: fig, axis = plt.subplots(1, 1)
    Stmt(11, "plot", {"axis", "freqs"}, {}),
      \* 26: axis.plot((freqs[0], freqs[-1]), (0, 0), linewidth=2, linestyle="--", color="k
    Stmt(11, "plot", {"axis", "freqs", "net_gc"}, {}),
      \* 27: axis.plot(freqs, net_gc[0], linewidth=2)
    Stmt(11, "plot", {"axis"}, {}),
      \* 28: axis.set_xlabel("Frequency (Hz)")
    Stmt(11, "plot", {"axis"}, {}),
      \* 29: axis.set_ylabel("Connectivity (A.U.)")
    Stmt(11, "plot", {"fig"}, {}),
      \* 30: fig.suptitle("Net GC: [A => B] - [B => A]")
    \* ---- cell 13 (lines 119-119) ----
    LibCall(13, "spectral_connectivity_epochs", {"epochs", "indices_ab", "np", "spectral_connectivity_epochs"}, {"gc_tr_ab"}, 0, "", {}),
      \* 31: gc_tr_ab = spectral_connectivity_epochs(
    LibCall(13, "spectral_connectivity_epochs", {"epochs", "indices_ba", "np", "spectral_connectivity_epochs"}, {"gc_tr_ba"}, 0, "", {}),
      \* 32: gc_tr_ba = spectral_connectivity_epochs(
    Stmt(13, "derive", {"gc_tr_ab", "gc_tr_ba"}, {"net_gc_tr"}),
      \* 33: net_gc_tr = gc_tr_ab.get_data() - gc_tr_ba.get_data()
    Stmt(13, "derive", {"net_gc", "net_gc_tr"}, {"trgc"}),
      \* 34: trgc = net_gc - net_gc_tr
    \* ---- cell 15 (lines 137-137) ----
    Stmt(15, "plot", {"plt"}, {"axis", "fig"}),
      \* 35: fig, axis = plt.subplots(1, 1)
    Stmt(15, "plot", {"axis", "freqs"}, {}),
      \* 36: axis.plot((freqs[0], freqs[-1]), (0, 0), linewidth=2, linestyle="--", color="k
    Stmt(15, "plot", {"axis", "freqs", "trgc"}, {}),
      \* 37: axis.plot(freqs, trgc[0], linewidth=2)
    Stmt(15, "plot", {"axis"}, {}),
      \* 38: axis.set_xlabel("Frequency (Hz)")
    Stmt(15, "plot", {"axis"}, {}),
      \* 39: axis.set_ylabel("Connectivity (A.U.)")
    Stmt(15, "plot", {"fig"}, {}),
      \* 40: fig.suptitle("TRGC: net[A => B] - net time-reversed[A => B]")
    \* ---- cell 17 (lines 155-155) ----
    LibCall(17, "spectral_connectivity_epochs", {"epochs", "indices_ab", "np", "spectral_connectivity_epochs"}, {"gc_ab_60"}, 0, "", {}),
      \* 41: gc_ab_60 = spectral_connectivity_epochs(
    Stmt(17, "plot", {"plt"}, {"axis", "fig"}),
      \* 42: fig, axis = plt.subplots(1, 1)
    Stmt(17, "plot", {"axis", "freqs", "gc_ab"}, {}),
      \* 43: axis.plot(freqs, gc_ab.get_data()[0], linewidth=2, label="20 lags")
    Stmt(17, "plot", {"axis", "freqs", "gc_ab_60"}, {}),
      \* 44: axis.plot(freqs, gc_ab_60.get_data()[0], linewidth=2, label="60 lags")
    Stmt(17, "plot", {"axis"}, {}),
      \* 45: axis.set_xlabel("Frequency (Hz)")
    Stmt(17, "plot", {"axis"}, {}),
      \* 46: axis.set_ylabel("Connectivity (A.U.)")
    Stmt(17, "plot", {"axis"}, {}),
      \* 47: axis.legend()
    Stmt(17, "plot", {"fig"}, {}),
      \* 48: fig.suptitle("GC: [A => B]")
    \* ---- cell 19 (lines 173-173) ----
    Stmt(19, "derive", {"np", "raw"}, {"s"}),
      \* 49: s = np.linalg.svd(raw.get_data(), compute_uv=False)
    Stmt(19, "derive", {"np", "s"}, {"rank"}),
      \* 50: rank = np.count_nonzero(s >= s[0] * 1e-4)
    \* ---- cell 21 (lines 191-191) ----
    Try(21, "RuntimeError", 55),
      \* 51: try:
    LibCall(21, "spectral_connectivity_epochs", {"epochs", "indices_ab", "spectral_connectivity_epochs"}, {}, 0, "", {"RuntimeError"}),
      \* 52: spectral_connectivity_epochs(
    PrintStmt(21, {"print"}, "Success!"),
      \* 53: print("Success!")
    EndTry(21, 58),
      \* 54: (end of the try body)
    ExceptClause(21, "RuntimeError", {"error"}),
      \* 55: except RuntimeError as error:
    PrintStmt(21, {"error", "print", "repr"}, "Caught the following error:"),
      \* 56: print("\nCaught the following error:\n" + repr(error))
    EndExcept(21, {"error"})
      \* 57: (end of the handler: error is unbound)
  >>

\* unnamed/part_001: the statements of the code cells, in order.
SeedTFNb ==
  <<
    \* ---- cell 2 (lines 18-18) ----
    Import(2, {"op"}),
      \* 1: import os.path as op
    Import(2, {"mne"}),
      \* 2: import mne
    Import(2, {"np"}),
      \* 3: import numpy as np
    Import(2, {"io"}),
      \* 4: from mne import io
    Import(2, {"sample"}),
      \* 5: from mne.datasets import sample
    Import(2, {"AverageTFRArray"}),
      \* 6: from mne.time_frequency import AverageTFRArray
    Import(2, {"seed_target_indices", "spectral_connectivity_epochs"}),
      \* 7: from mne_connectivity import seed_target_indices, spectral_connectivity_epochs
    PrintStmt(2, {"__doc__", "print"}, "<value>"),
      \* 8: print(__doc__)
    \* ---- cell 4 (lines 36-36) ----
    Stmt(4, "load", {"sample"}, {"data_path"}),
      \* 9: data_path = sample.data_path()
    Stmt(4, "derive", {"data_path", "op"}, {"raw_fname"}),
      \* 10: raw_fname = op.join(data_path, "MEG", "sample", "sample_audvis_filt-0-40_raw.f
    Stmt(4, "derive", {"data_path", "op"}, {"event_fname"}),
      \* 11: event_fname = op.join(data_path, "MEG", "sample", "sample_audvis_filt-0-40_raw
    Stmt(4, "load", {"io", "raw_fname"}, {"raw"}),
      \* 12: raw = io.read_raw_fif(raw_fname)
    Stmt(4, "load", {"event_fname", "mne"}, {"events"}),
      \* 13: events = mne.read_events(event_fname)
    Stmt(4, "derive", {"raw"}, {"raw"}),
      \* 14: raw.info["bads"] += ["MEG 2443"]
    Stmt(4, "load", {"mne", "raw"}, {"picks"}),
      \* 15: picks = mne.pick_types(
    Stmt(4, "config", {}, {"event_id", "tmax", "tmin"}),
      \* 16: event_id, tmin, tmax = 3, -0.2, 0.5
    Stmt(4, "load", {"dict", "event_id", "events", "mne", "picks", "raw", "tmax", "tmin"}, {"epochs"}),
      \* 17: epochs = mne.Epochs(
    Stmt(4, "config", {}, {"seed_ch"}),
      \* 18: seed_ch = "MEG 2343"
    Stmt(4, "derive", {"picks", "raw"}, {"picks_ch_names"}),
      \* 19: picks_ch_names = [raw.ch_names[i] for i in picks]
    Stmt(4, "derive", {"picks_ch_names", "seed_ch"}, {"seed"}),
      \* 20: seed = picks_ch_names.index(seed_ch)
    Stmt(4, "derive", {"len", "np", "picks"}, {"targets"}),
      \* 21: targets = np.arange(len(picks))
    Stmt(4, "derive", {"seed", "seed_target_indices", "targets"}, {"indices"}),
      \* 22: indices = seed_target_indices(seed, targets)
    Stmt(4, "config", {"np"}, {"cwt_freqs"}),
      \* 23: cwt_freqs = np.arange(7, 30, 2)
    Stmt(4, "config", {"cwt_freqs"}, {"cwt_n_cycles"}),
      \* 24: cwt_n_cycles = cwt_freqs / 7.0
    Stmt(4, "derive", {"raw"}, {"sfreq"}),
      \* 25: sfreq = raw.info["sfreq"]
    LibCall(4, "spectral_connectivity_epochs", {"cwt_freqs", "cwt_n_cycles", "epochs", "indices", "sfreq", "spectral_connectivity_epochs"}, {"con"}, 1, "", {}),
      \* 26: con = spectral_connectivity_epochs(
    Stmt(4, "derive", {"con"}, {"times"}),
      \* 27: times = con.times
    Stmt(4, "derive", {"con"}, {"freqs"}),
      \* 28: freqs = con.freqs
    Stmt(4, "derive", {"con", "indices", "np", "seed"}, {"con"}),
      \* 29: con.get_data()[np.where(indices[1] == seed)] = 1.0
    Stmt(4, "config", {"seed_ch"}, {"title"}),
      \* 30: title = "WPLI2 - Visual - Seed %s" % seed_ch
    Stmt(4, "derive", {"epochs", "mne"}, {"layout"}),
      \* 31: layout = mne.find_layout(epochs.info, "meg")
    Stmt(4, "derive", {"AverageTFRArray", "con", "epochs", "freqs", "len", "times"}, {"tfr"}),
      \* 32: tfr = AverageTFRArray(epochs.info, con.get_data(), times, freqs, nave=len(epoc
    Stmt(4, "plot", {"tfr"}, {})
      \* 33: tfr.plot_topo(fig_facecolor="w", font_color="k", border="k")
  >>

\* unnamed/part_002: the statements of the code cells, in order.
CoherencyNb ==
  <<
    \* ---- cell 3 (lines 29-29) ----
    Import(3, {"np"}),
      \* 1: import numpy as np
    Import(3, {"plt"}),
      \* 2: from matplotlib import pyplot as plt
    Import(3, {"make_signals_in_freq_bands", "seed_target_indices", "spectral_connectivity_epochs"}),
      \* 3: from mne_connectivity import (
    \* ---- cell 6 (lines 54-54) ----
    Stmt(6, "load", {"make_signals_in_freq_bands"}, {"data_delay"}),
      \* 4: data_delay = make_signals_in_freq_bands(
    Stmt(6, "load", {"make_signals_in_freq_bands"}, {"data_no_delay"}),
      \* 5: data_no_delay = make_signals_in_freq_bands(
    Stmt(6, "load", {"data_delay", "data_no_delay"}, {"data"}),
      \* 6: data = data_delay.add_channels([data_no_delay])
    \* ---- cell 8 (lines 72-72) ----
    Stmt(8, "config", {}, {"seeds"}),
      \* 7: seeds = [0, 1, 2, 6, 7, 8]
    Stmt(8, "config", {}, {"targets"}),
      \* 8: targets = [3, 4, 5, 9, 10, 11]
    Stmt(8, "config", {"seed_target_indices", "seeds", "targets"}, {"bivar_indices"}),
      \* 9: bivar_indices = seed_target_indices(seeds, targets)
    Stmt(8, "config", {"seeds", "targets"}, {"multivar_indices"}),
      \* 10: multivar_indices = ([seeds], [targets])
    LibCall(8, "spectral_connectivity_epochs", {"data", "multivar_indices", "spectral_connectivity_epochs"}, {"cacoh", "mic"}, 0, "", {}),
      \* 11: (cacoh, mic) = spectral_connectivity_epochs(
    \* ---- cell 10 (lines 90-90) ----
    Stmt(10, "plot", {"plt"}, {"axis", "fig"}),
      \* 12: fig, axis = plt.subplots(1, 1)
    Stmt(10, "plot", {"axis", "cacoh", "np"}, {}),
      \* 13: axis.plot(cacoh.freqs, np.abs(cacoh.get_data()[0]), linewidth=2, label="CaCoh"
    Stmt(10, "plot", {"axis", "mic", "np"}, {}),
      \* 14: axis.plot(
    Stmt(10, "plot", {"axis"}, {}),
      \* 15: axis.set_xlabel("Frequency (Hz)")
    Stmt(10, "plot", {"axis"}, {}),
      \* 16: axis.set_ylabel("Connectivity (A.U.)")
    Stmt(10, "plot", {"axis"}, {}),
      \* 17: axis.annotate("Non-zero\ntime-lag\ninteraction", xy=(13.5, 0.85))
    Stmt(10, "plot", {"axis"}, {}),
      \* 18: axis.annotate("Zero\ntime-lag\ninteraction", xy=(26.5, 0.85))
    Stmt(10, "plot", {"axis"}, {}),
      \* 19: axis.legend(loc="upper left")
    Stmt(10, "plot", {"fig"}, {}),
      \* 20: fig.suptitle("CaCoh vs. MIC\nNon-zero & zero time-lags")
    \* ---- cell 11 (lines 101-101) ----
    Def(11, "plot_connectivity_circle", {}, 48),
      \* 21: def plot_connectivity_circle():
    Stmt(11, "plot", {"plt"}, {"axis", "fig"}),
      \* 22: fig, axis = plt.subplots(1, 1)
    Stmt(11, "config", {"np"}, {"t"}),
      \* 23: t = np.linspace(0, 2 * np.pi, 100)
    Stmt(11, "plot", {"axis", "np", "t"}, {}),
      \* 24: axis.plot(np.cos(t), np.sin(t), color="k", linewidth=0.1)
    Stmt(11, "plot", {"axis"}, {}),
      \* 25: axis.plot([-1, 1], [0, 0], color="k", linestyle="--")
    Stmt(11, "plot", {"axis"}, {}),
      \* 26: axis.plot([0, 0], [-1, 1], color="k", linestyle="--")
    Stmt(11, "plot", {"axis"}, {}),
      \* 27: axis.axis("off")
    Stmt(11, "config", {}, {"fontdict"}),
      \* 28: fontdict = {"fontsize": 10}
    Stmt(11, "config", {"np"}, {"qpi"}),
      \* 29: qpi = np.pi / 4
    Stmt(11, "plot", {"axis", "fontdict"}, {}),
      \* 30: axis.text(1, 0, " 0?", ha="left", va="center", fontdict=fontdict)
    Stmt(11, "plot", {"axis", "fontdict", "np"}, {}),
      \* 31: axis.text(np.pi / 4, np.pi / 4, "45?", ha="center", va="center", fontdict=font
    Stmt(11, "plot", {"axis", "fontdict"}, {}),
      \* 32: axis.text(0, 1, "90?", ha="center", va="bottom", fontdict=fontdict)
    Stmt(11, "plot", {"axis", "fontdict", "qpi"}, {}),
      \* 33: axis.text(-qpi, qpi, "135?", ha="center", va="center", fontdict=fontdict)
    Stmt(11, "plot", {"axis", "fontdict"}, {}),
      \* 34: axis.text(-1, 0, "180?", ha="right", va="center", fontdict=fontdict)
    Stmt(11, "plot", {"axis", "fontdict", "qpi"}, {}),
      \* 35: axis.text(-qpi, -qpi, "-135?", ha="center", va="center", fontdict=fontdict)
    Stmt(11, "plot", {"axis", "fontdict"}, {}),
      \* 36: axis.text(0, -1, "-90?", ha="center", va="top", fontdict=fontdict)
    Stmt(11, "plot", {"axis", "fontdict", "qpi"}, {}),
      \* 37: axis.text(qpi, -qpi, "-45?", ha="center", va="center", fontdict=fontdict)
    Stmt(11, "config", {}, {"fontdict"}),
      \* 38: fontdict = {"fontsize": 12}
    Stmt(11, "plot", {"axis", "fontdict"}, {}),
      \* 39: axis.text(1.15, 0, " Real", ha="left", va="center", fontdict=fontdict)
    Stmt(11, "plot", {"axis", "fontdict"}, {}),
      \* 40: axis.text(0, 1.15, "Imaginary", ha="center", va="bottom", fontdict=fontdict)
    Stmt(11, "plot", {"axis", "fontdict"}, {}),
      \* 41: axis.text(0, 0, "0 ", ha="right", va="top", fontdict=fontdict)
    Stmt(11, "plot", {"axis", "fontdict"}, {}),
      \* 42: axis.text(-1, 0, "-1", ha="left", va="top", fontdict=fontdict)
    Stmt(11, "plot", {"axis", "fontdict"}, {}),
      \* 43: axis.text(1, 0, "+1", ha="right", va="top", fontdict=fontdict)
    Stmt(11, "plot", {"axis", "fontdict"}, {}),
      \* 44: axis.text(0, -1, "-1 ", ha="right", va="bottom", fontdict=fontdict)
    Stmt(11, "plot", {"axis", "fontdict"}, {}),
      \* 45: axis.text(0, 1, "+1 ", ha="right", va="top", fontdict=fontdict)
    Stmt(11, "plot", {"axis"}, {}),
      \* 46: axis.set_aspect("equal")
    Return(11, "ctrl", {"axis", "fig"}),
      \* 47: return fig, axis
    \* ---- cell 13 (lines 119-119) ----
    Stmt(13, "derive", {"cacoh"}, {"freqs"}),
      \* 48: freqs = cacoh.freqs
    Stmt(13, "derive", {"cacoh", "freqs", "np"}, {"cacoh_10_12"}),
      \* 49: cacoh_10_12 = np.mean(cacoh.get_data()[0, freqs.index(10) : freqs.index(12) + 
    Stmt(13, "derive", {"cacoh", "freqs", "np"}, {"cacoh_23_25"}),
      \* 50: cacoh_23_25 = np.mean(cacoh.get_data()[0, freqs.index(23) : freqs.index(25) + 
    Call(13, "plot", {"plot_connectivity_circle"}, {"axis", "fig"}, "plot_connectivity_circle"),
      \* 51: fig, axis = plot_connectivity_circle()
    Stmt(13, "plot", {"axis", "cacoh_10_12", "np"}, {}),
      \* 52: axis.quiver(
    Stmt(13, "plot", {"axis", "cacoh_23_25", "np"}, {}),
      \* 53: axis.quiver(
    Stmt(13, "plot", {"axis"}, {}),
      \* 54: axis.legend(loc="upper right", bbox_to_anchor=[1.1, 1.1])
    \* ---- cell 15 (lines 137-137) ----
    LibCall(15, "spectral_connectivity_epochs", {"bivar_indices", "data", "spectral_connectivity_epochs"}, {"coh", "imcoh"}, 0, "", {}),
      \* 55: (coh, imcoh) = spectral_connectivity_epochs(
    Stmt(15, "derive", {"coh", "np"}, {"coh_mean"}),
      \* 56: coh_mean = np.mean(coh.get_data(), axis=0)
    Stmt(15, "derive", {"imcoh", "np"}, {"imcoh_mean"}),
      \* 57: imcoh_mean = np.mean(np.abs(imcoh.get_data()), axis=0)
    Stmt(15, "derive", {"coh_mean", "np"}, {"coh_mean_subbed"}),
      \* 58: coh_mean_subbed = coh_mean - np.mean(coh_mean)
    Stmt(15, "derive", {"imcoh_mean", "np"}, {"imcoh_mean_subbed"}),
      \* 59: imcoh_mean_subbed = imcoh_mean - np.mean(imcoh_mean)
    Stmt(15, "plot", {"plt"}, {"axis", "fig"}),
      \* 60: fig, axis = plt.subplots(1, 1)
    Stmt(15, "plot", {"axis", "coh", "coh_mean_subbed"}, {}),
      \* 61: axis.plot(coh.freqs, coh_mean_subbed, linewidth=2, label="Coh")
    Stmt(15, "plot", {"axis", "imcoh", "imcoh_mean_subbed"}, {}),
      \* 62: axis.plot(imcoh.freqs, imcoh_mean_subbed, linewidth=2, label="ImCoh", linestyl
    Stmt(15, "plot", {"axis"}, {}),
      \* 63: axis.set_xlabel("Frequency (Hz)")
    Stmt(15, "plot", {"axis"}, {}),
      \* 64: axis.set_ylabel("Mean-corrected connectivity (A.U.)")
    Stmt(15, "plot", {"axis"}, {}),
      \* 65: axis.annotate("Non-zero\ntime-lag\ninteraction", xy=(13, 0.25))
    Stmt(15, "plot", {"axis"}, {}),
      \* 66: axis.annotate("Zero\ntime-lag\ninteraction", xy=(25, 0.25))
    Stmt(15, "plot", {"axis"}, {}),
      \* 67: axis.legend(loc="upper left")
    Stmt(15, "plot", {"fig"}, {}),
      \* 68: fig.suptitle("Coh vs. ImCoh\nNon-zero & zero time-lags")
    \* ---- cell 17 (lines 155-155) ----
    Stmt(17, "load", {"make_signals_in_freq_bands"}, {"data_10_12"}),
      \* 69: data_10_12 = make_signals_in_freq_bands(
    Stmt(17, "load", {"make_signals_in_freq_bands"}, {"data_23_25"}),
      \* 70: data_23_25 = make_signals_in_freq_bands(
    Stmt(17, "load", {"data_10_12", "data_23_25"}, {"data"}),
      \* 71: data = data_10_12.add_channels([data_23_25])
    LibCall(17, "spectral_connectivity_epochs", {"data", "multivar_indices", "spectral_connectivity_epochs"}, {"cacoh", "mic"}, 0, "", {}),
      \* 72: (cacoh, mic) = spectral_connectivity_epochs(
    Stmt(17, "derive", {"cacoh"}, {"freqs"}),
      \* 73: freqs = cacoh.freqs
    Stmt(17, "derive", {"cacoh", "freqs", "np"}, {"cacoh_10_12"}),
      \* 74: cacoh_10_12 = np.mean(cacoh.get_data()[0, freqs.index(10) : freqs.index(12) + 
    Stmt(17, "derive", {"cacoh", "freqs", "np"}, {"cacoh_23_25"}),
      \* 75: cacoh_23_25 = np.mean(cacoh.get_data()[0, freqs.index(23) : freqs.index(25) + 
    Call(17, "plot", {"plot_connectivity_circle"}, {"axis", "fig"}, "plot_connectivity_circle"),
      \* 76: fig, axis = plot_connectivity_circle()
    Stmt(17, "plot", {"axis", "cacoh_10_12", "np"}, {}),
      \* 77: axis.quiver(
    Stmt(17, "plot", {"axis", "cacoh_23_25", "np"}, {}),
      \* 78: axis.quiver(
    Stmt(17, "plot", {"axis"}, {}),
      \* 79: axis.legend(loc="upper right", bbox_to_anchor=[1.1, 1.1])
    \* ---- cell 19 (lines 173-173) ----
    Stmt(19, "plot", {"plt"}, {"axis", "fig"}),
      \* 80: fig, axis = plt.subplots(1, 1)
    Stmt(19, "plot", {"axis", "cacoh", "np"}, {}),
      \* 81: axis.plot(cacoh.freqs, np.abs(cacoh.get_data()[0]), linewidth=2, label="CaCoh"
    Stmt(19, "plot", {"axis", "mic", "np"}, {}),
      \* 82: axis.plot(
    Stmt(19, "plot", {"axis"}, {}),
      \* 83: axis.set_xlabel("Frequency (Hz)")
    Stmt(19, "plot", {"axis"}, {}),
      \* 84: axis.set_ylabel("Connectivity (A.U.)")
    Stmt(19, "plot", {"axis"}, {}),
      \* 85: axis.annotate("$\\pm$45?\ninteraction", xy=(12.5, 0.9))
    Stmt(19, "plot", {"axis"}, {}),
      \* 86: axis.annotate("$\\pm$90?\ninteraction", xy=(26.5, 0.9))
    Stmt(19, "plot", {"axis"}, {}),
      \* 87: axis.legend(loc="upper left")
    Stmt(19, "plot", {"fig"}, {}),
      \* 88: fig.suptitle("CaCoh vs. MIC\n$\\pm$45? & $\\pm$90? interactions")
    \* ---- cell 21 (lines 191-191) ----
    LibCall(21, "spectral_connectivity_epochs", {"bivar_indices", "data", "spectral_connectivity_epochs"}, {"coh", "imcoh"}, 0, "", {}),
      \* 89: (coh, imcoh) = spectral_connectivity_epochs(
    Stmt(21, "derive", {"coh", "np"}, {"coh_mean"}),
      \* 90: coh_mean = np.mean(coh.get_data(), axis=0)
    Stmt(21, "derive", {"imcoh", "np"}, {"imcoh_mean"}),
      \* 91: imcoh_mean = np.mean(np.abs(imcoh.get_data()), axis=0)
    Stmt(21, "derive", {"coh_mean", "np"}, {"coh_mean_subbed"}),
      \* 92: coh_mean_subbed = coh_mean - np.mean(coh_mean)
    Stmt(21, "derive", {"imcoh_mean", "np"}, {"imcoh_mean_subbed"}),
      \* 93: imcoh_mean_subbed = imcoh_mean - np.mean(imcoh_mean)
    Stmt(21, "plot", {"plt"}, {"axis", "fig"}),
      \* 94: fig, axis = plt.subplots(1, 1)
    Stmt(21, "plot", {"axis", "coh", "coh_mean_subbed"}, {}),
      \* 95: axis.plot(coh.freqs, coh_mean_subbed, linewidth=2, label="Coh")
    Stmt(21, "plot", {"axis", "imcoh", "imcoh_mean_subbed"}, {}),
      \* 96: axis.plot(imcoh.freqs, imcoh_mean_subbed, linewidth=2, label="ImCoh", linestyl
    Stmt(21, "plot", {"axis"}, {}),
      \* 97: axis.set_xlabel("Frequency (Hz)")
    Stmt(21, "plot", {"axis"}, {}),
      \* 98: axis.set_ylabel("Mean-corrected connectivity (A.U.)")
    Stmt(21, "plot", {"axis"}, {}),
      \* 99: axis.annotate("$\\pm$45?\ninteraction", xy=(13, 0.25))
    Stmt(21, "plot", {"axis"}, {}),
      \* 100: axis.annotate("$\\pm$90?\ninteraction", xy=(26.5, 0.25))
    Stmt(21, "plot", {"axis"}, {}),
      \* 101: axis.legend(loc="upper left")
    Stmt(21, "plot", {"fig"}, {})
      \* 102: fig.suptitle("Coh vs. ImCoh\n$\\pm$45? & $\\pm$90? interactions")
  >>

\* unnamed/part_003: the statements of the code cells, in order.
VARNb ==
  <<
    \* ---- cell 2 (lines 18-18) ----
    Import(2, {"plt"}),
      \* 1: import matplotlib.pyplot as plt
    Import(2, {"mne"}),
      \* 2: import mne
    Import(2, {"np"}),
      \* 3: import numpy as np
    Import(2, {"make_fixed_length_epochs"}),
      \* 4: from mne import make_fixed_length_epochs
    Import(2, {"BIDSPath", "read_raw_bids"}),
      \* 5: from mne_bids import BIDSPath, read_raw_bids
    Import(2, {"vector_auto_regression"}),
      \* 6: from mne_connectivity import vector_auto_regression
    \* ---- cell 4 (lines 36-36) ----
    Stmt(4, "load", {"mne"}, {"bids_root"}),
      \* 7: bids_root = mne.datasets.epilepsy_ecog.data_path()
    Stmt(4, "derive", {"BIDSPath", "bids_root"}, {"bids_path"}),
      \* 8: bids_path = BIDSPath(
    Stmt(4, "load", {"bids_path", "read_raw_bids"}, {"raw"}),
      \* 9: raw = read_raw_bids(bids_path=bids_path, verbose=False)
    Stmt(4, "derive", {"raw"}, {"line_freq"}),
      \* 10: line_freq = raw.info["line_freq"]
    PrintStmt(4, {"line_freq", "print"}, "Data has a power line frequency at"),
      \* 11: print(f"Data has a power line frequency at {line_freq}.")
    Stmt(4, "load", {"raw"}, {}),
      \* 12: raw.pick_types(ecog=True)
    Stmt(4, "load", {"raw"}, {}),
      \* 13: raw.load_data()
    Stmt(4, "load", {"line_freq", "raw"}, {}),
      \* 14: raw.notch_filter(line_freq)
    Stmt(4, "load", {"raw"}, {}),
      \* 15: raw.drop_channels(raw.info["bads"])
    \* ---- cell 6 (lines 54-54) ----
    Stmt(6, "call", {"mne", "raw"}, {"event_id", "events"}),
      \* 16: events, event_id = mne.events_from_annotations(raw)
    Stmt(6, "derive", {"event_id"}, {"onset_id"}),
      \* 17: onset_id = event_id["onset"]
    Stmt(6, "derive", {"events", "np", "onset_id"}, {"onset_idx"}),
      \* 18: onset_idx = np.argwhere(events[:, 2] == onset_id)
    Stmt(6, "derive", {"events", "onset_idx"}, {"onset_sample"}),
      \* 19: onset_sample = events[onset_idx, 0].squeeze()
    Stmt(6, "derive", {"onset_sample", "raw"}, {"onset_sec"}),
      \* 20: onset_sec = onset_sample / raw.info["sfreq"]
    Stmt(6, "load", {"onset_sec", "raw"}, {"raw"}),
      \* 21: raw = raw.crop(tmin=0, tmax=onset_sec, include_tmax=False)
    \* ---- cell 8 (lines 72-72) ----
    Stmt(8, "load", {"make_fixed_length_epochs", "raw"}, {"epochs"}),
      \* 22: epochs = make_fixed_length_epochs(raw=raw, duration=0.5, overlap=0.25)
    Stmt(8, "derive", {"epochs"}, {"times"}),
      \* 23: times = epochs.times
    Stmt(8, "derive", {"epochs"}, {"ch_names"}),
      \* 24: ch_names = epochs.ch_names
    PrintStmt(8, {"epochs", "print"}, "<value>"),
      \* 25: print(epochs)
    PrintStmt(8, {"epochs", "print"}, "<value>"),
      \* 26: print(epochs.times)
    PrintStmt(8, {"epochs", "print"}, "<value>"),
      \* 27: print(epochs.event_id)
    PrintStmt(8, {"epochs", "print"}, "<value>"),
      \* 28: print(epochs.events)
    \* ---- cell 10 (lines 90-90) ----
    LibCall(10, "vector_auto_regression", {"ch_names", "epochs", "times", "vector_auto_regression"}, {"conn"}, 0, "", {}),
      \* 29: conn = vector_auto_regression(data=epochs.get_data(), times=times, names=ch_na
    PrintStmt(10, {"conn", "print"}, "<value>"),
      \* 30: print(conn)
    \* ---- cell 12 (lines 108-108) ----
    Stmt(12, "call", {"conn", "epochs"}, {"predicted_data"}),
      \* 31: predicted_data = conn.predict(epochs.get_data())
    Stmt(12, "derive", {"epochs", "predicted_data"}, {"residuals"}),
      \* 32: residuals = epochs.get_data() - predicted_data
    Stmt(12, "plot", {"plt"}, {"ax", "fig"}),
      \* 33: fig, ax = plt.subplots()
    Stmt(12, "plot", {"ax", "residuals"}, {}),
      \* 34: ax.plot(residuals.flatten(), "*")
    Stmt(12, "plot", {"ax"}, {}),
      \* 35: ax.set(title="Residuals of fitted VAR model", ylabel="Magnitude")
    Stmt(12, "derive", {"conn"}, {"model_order"}),
      \* 36: model_order = conn.attrs.get("model_order")
    Stmt(12, "derive", {"residuals"}, {"t"}),
      \* 37: t = residuals.shape[0]
    Stmt(12, "derive", {"model_order", "np", "residuals", "t"}, {"sampled_residuals"}),
      \* 38: sampled_residuals = np.concatenate(
    Stmt(12, "derive", {"np", "sampled_residuals"}, {"rescov"}),
      \* 39: rescov = np.cov(sampled_residuals)
    Stmt(12, "plot", {"plt"}, {"ax", "fig"}),
      \* 40: fig, ax = plt.subplots()
    Stmt(12, "plot", {"fig"}, {"cax"}),
      \* 41: cax = fig.add_axes([0.27, 0.8, 0.5, 0.05])
    Stmt(12, "plot", {"ax", "rescov"}, {"im"}),
      \* 42: im = ax.imshow(rescov, cmap="viridis", aspect="equal", interpolation="none")
    Stmt(12, "plot", {"cax", "fig", "im"}, {}),
      \* 43: fig.colorbar(im, cax=cax, orientation="horizontal")
    \* ---- cell 14 (lines 126-126) ----
    LibCall(14, "vector_auto_regression", {"ch_names", "epochs", "times", "vector_auto_regression"}, {"conn"}, 0, "avg-epochs", {}),
      \* 44: conn = vector_auto_regression(
    PrintStmt(14, {"conn", "print"}, "<value>"),
      \* 45: print(conn)
    \* ---- cell 16 (lines 144-144) ----
    Stmt(16, "derive", {"epochs"}, {"first_epoch"}),
      \* 46: first_epoch = epochs.get_data()[0, ...]
    Stmt(16, "call", {"conn", "first_epoch"}, {"predicted_data"}),
      \* 47: predicted_data = conn.predict(first_epoch)
    Stmt(16, "derive", {"epochs", "predicted_data"}, {"residuals"}),
      \* 48: residuals = epochs.get_data() - predicted_data
    Stmt(16, "plot", {"plt"}, {"ax", "fig"}),
      \* 49: fig, ax = plt.subplots()
    Stmt(16, "plot", {"ax", "residuals"}, {}),
      \* 50: ax.plot(residuals.flatten(), "*")
    Stmt(16, "plot", {"ax"}, {}),
      \* 51: ax.set(title="Residuals of fitted VAR model", ylabel="Magnitude")
    Stmt(16, "derive", {"conn"}, {"model_order"}),
      \* 52: model_order = conn.attrs.get("model_order")
    Stmt(16, "derive", {"residuals"}, {"t"}),
      \* 53: t = residuals.shape[0]
    Stmt(16, "derive", {"model_order", "np", "residuals", "t"}, {"sampled_residuals"}),
      \* 54: sampled_residuals = np.concatenate(
    Stmt(16, "derive", {"np", "sampled_residuals"}, {"rescov"}),
      \* 55: rescov = np.cov(sampled_residuals)
    Stmt(16, "plot", {"plt"}, {"ax", "fig"}),
      \* 56: fig, ax = plt.subplots()
    Stmt(16, "plot", {"fig"}, {"cax"}),
      \* 57: cax = fig.add_axes([0.27, 0.8, 0.5, 0.05])
    Stmt(16, "plot", {"ax", "rescov"}, {"im"}),
      \* 58: im = ax.imshow(rescov, cmap="viridis", aspect="equal", interpolation="none")
    Stmt(16, "plot", {"cax", "fig", "im"}, {})
      \* 59: fig.colorbar(im, cax=cax, orientation="horizontal")
  >>

\* EEGMEG1-preprocessing/1/4_20_event_arrays.ipynb: the statements of the code cells, in order.
EventsNb ==
  <<
    \* ---- cell 3 (lines 176-183) ----
    Import(3, {"np"}),
      \* 1: import numpy as np
    Import(3, {"mne"}),
      \* 2: import mne
    Stmt(3, "load", {"mne"}, {"sample_data_folder"}),
      \* 3: sample_data_folder = mne.datasets.sample.data_path()
    Stmt(3, "derive", {"sample_data_folder"}, {"sample_data_raw_file"}),
      \* 4: sample_data_raw_file = sample_data_folder / "MEG" / "sample" / "sample_audvis_
    Stmt(3, "load", {"mne", "sample_data_raw_file"}, {"raw"}),
      \* 5: raw = mne.io.read_raw_fif(sample_data_raw_file)
    Stmt(3, "load", {"raw"}, {}),
      \* 6: raw.crop(tmax=60).load_data()
    \* ---- cell 5 (lines 277-277) ----
    Stmt(5, "plot", {"raw"}, {}),
      \* 7: raw.copy().pick(picks="stim").plot(start=3, duration=6)
    \* ---- cell 7 (lines 332-333) ----
    Stmt(7, "call", {"mne", "raw"}, {"events"}),
      \* 8: events = mne.find_events(raw, stim_channel="STI 014")
    PrintStmt(7, {"events", "print"}, "<value>"),
      \* 9: print(events[:5])
    \* ---- cell 9 (lines 418-421) ----
    Stmt(9, "load", {"mne"}, {"testing_data_folder"}),
      \* 10: testing_data_folder = mne.datasets.testing.data_path()
    Stmt(9, "derive", {"testing_data_folder"}, {"eeglab_raw_file"}),
      \* 11: eeglab_raw_file = testing_data_folder / "EEGLAB" / "test_raw.set"
    Stmt(9, "load", {"eeglab_raw_file", "mne"}, {"eeglab_raw"}),
      \* 12: eeglab_raw = mne.io.read_raw_eeglab(eeglab_raw_file)
    PrintStmt(9, {"eeglab_raw", "print"}, "<value>"),
      \* 13: print(eeglab_raw.annotations)
    \* ---- cell 11 (lines 459-462) ----
    PrintStmt(11, {"eeglab_raw", "len", "print"}, "<value>"),
      \* 14: print(len(eeglab_raw.annotations))
    PrintStmt(11, {"eeglab_raw", "print", "set"}, "<value>"),
      \* 15: print(set(eeglab_raw.annotations.duration))
    PrintStmt(11, {"eeglab_raw", "print", "set"}, "<value>"),
      \* 16: print(set(eeglab_raw.annotations.description))
    PrintStmt(11, {"eeglab_raw", "print"}, "<value>"),
      \* 17: print(eeglab_raw.annotations.onset[0])
    \* ---- cell 13 (lines 523-525) ----
    Stmt(13, "call", {"eeglab_raw", "mne"}, {"event_dict", "events_from_annot"}),
      \* 18: events_from_annot, event_dict = mne.events_from_annotations(eeglab_raw)
    PrintStmt(13, {"event_dict", "print"}, "<value>"),
      \* 19: print(event_dict)
    PrintStmt(13, {"events_from_annot", "print"}, "<value>"),
      \* 20: print(events_from_annot[:5])
    \* ---- cell 15 (lines 568-573) ----
    Stmt(15, "config", {}, {"custom_mapping"}),
      \* 21: custom_mapping = {"rt": 77, "square": 42}
    Stmt(15, "call", {"custom_mapping", "eeglab_raw", "mne"}, {"event_dict", "events_from_annot"}),
      \* 22: (events_from_annot, event_dict) = mne.events_from_annotations(
    PrintStmt(15, {"event_dict", "print"}, "<value>"),
      \* 23: print(event_dict)
    PrintStmt(15, {"events_from_annot", "print"}, "<value>"),
      \* 24: print(events_from_annot[:5])
    \* ---- cell 17 (lines 710-724) ----
    Stmt(17, "config", {}, {"mapping"}),
      \* 25: mapping = {
    Stmt(17, "call", {"events", "mapping", "mne", "raw"}, {"annot_from_events"}),
      \* 26: annot_from_events = mne.annotations_from_events(
    Stmt(17, "load", {"annot_from_events", "raw"}, {}),
      \* 27: raw.set_annotations(annot_from_events)
    \* ---- cell 19 (lines 758-758) ----
    Stmt(19, "plot", {"raw"}, {}),
      \* 28: raw.plot(start=5, duration=5)
    \* ---- cell 21 (lines 798-801) ----
    Stmt(21, "load", {"mne"}, {"rem_annot"}),
      \* 29: rem_annot = mne.Annotations(onset=[5, 41], duration=[16, 11], description=["RE
    Stmt(21, "load", {"raw", "rem_annot"}, {}),
      \* 30: raw.set_annotations(rem_annot)
    Stmt(21, "call", {"mne", "raw"}, {"rem_event_dict", "rem_events"}),
      \* 31: (rem_events, rem_event_dict) = mne.events_from_annotations(raw, chunk_duration
    \* ---- cell 23 (lines 835-835) ----
    PrintStmt(23, {"np", "print", "raw", "rem_events"}, "<value>")
      \* 32: print(np.round((rem_events[:, 0] - raw.first_samp) / raw.info["sfreq"], 3))
  >>
----------------------------------------------------------------------------
\* The kernel.

Notebooks ==
    {"Coherence", "Spectrum", "Envelope", "Compare", "Granger", "SeedTF",
     "Coherency", "VAR", "Events"}

\* The sequence t with its element a moved to position b.
Moved(t, a, b) ==
    [k \in 1..Len(t) |->
        IF k = b THEN t[a]
        ELSE IF a < b /\ a <= k /\ k < b THEN t[k + 1]
        ELSE IF b < a /\ b < k /\ k <= a THEN t[k - 1]
        ELSE t[k]]

\* The coherency notebook with its first connectivity call placed before
\* the statements that simulate its data.
ProgCallEarly(n) ==
    CASE n = "Coherence" -> CoherenceNb
      [] n = "Spectrum"  -> SpectrumNb
      [] n = "Envelope"  -> EnvelopeNb
      [] n = "Compare"   -> CompareNb
      [] n = "Granger"   -> GrangerNb
      [] n = "SeedTF"    -> SeedTFNb
      [] n = "Coherency" -> Moved(CoherencyNb, 11, 4)
      [] n = "VAR"       -> VARNb
      [] OTHER           -> EventsNb

\* The event notebook with the cell that plots the annotated recording
\* run after the cell that follows it.
ProgCellsSwapped(n) ==
    CASE n = "Coherence" -> CoherenceNb
      [] n = "Spectrum"  -> SpectrumNb
      [] n = "Envelope"  -> EnvelopeNb
      [] n = "Compare"   -> CompareNb
      [] n = "Granger"   -> GrangerNb
      [] n = "SeedTF"    -> SeedTFNb
      [] n = "Coherency" -> CoherencyNb
      [] n = "VAR"       -> VARNb
      [] OTHER           -> Moved(EventsNb, 28, 31)

\* The envelope notebook with "del stcs, epochs" one statement early,
\* before the label time courses are extracted from stcs.
ProgDelEarly(n) ==
    CASE n = "Coherence" -> CoherenceNb
      [] n = "Spectrum"  -> SpectrumNb
      [] n = "Envelope"  -> Moved(EnvelopeNb, 64, 63)
      [] n = "Compare"   -> CompareNb
      [] n = "Granger"   -> GrangerNb
      [] n = "SeedTF"    -> SeedTFNb
      [] n = "Coherency" -> CoherencyNb
      [] n = "VAR"       -> VARNb
      [] OTHER           -> EventsNb

\* The statements of notebook n.
Prog(n) ==
    CASE n = "Coherence" -> CoherenceNb
      [] n = "Spectrum"  -> SpectrumNb
      [] n = "Envelope"  -> EnvelopeNb
      [] n = "Compare"   -> CompareNb
      [] n = "Granger"   -> GrangerNb
      [] n = "SeedTF"    -> SeedTFNb
      [] n = "Coherency" -> CoherencyNb
      [] n = "VAR"       -> VARNb
      [] OTHER           -> EventsNb

\* Names a fresh IPython kernel resolves without any cell having run.
Builtins ==
    {"RuntimeError", "__doc__", "dict", "enumerate", "int", "len", "list",
     "print", "range", "repr", "set", "tuple"}

\* Integer names the loops and conditionals of the notebooks compute with.
IntNames ==
    {"i", "j", "c", "f", "ts", "n_rows", "n_epochs", "n_channels",
     "n_con_methods"}

VARIABLES
    nb,        \* the notebook the kernel runs
    pc,        \* index of the statement to execute next
    status,    \* "running", "done", or "aborted" by an uncaught exception
    bound,     \* names bound in the kernel's global namespace
    frames,    \* stack of active calls of the notebook's own functions
    loops,     \* stack of active for loops
    handlers,  \* stack of active try statements
    ival,      \* values of the integer names
    raised,    \* the last exception raised ("" when none)
    out,       \* literal messages printed so far
    cellsRun,  \* the cells started so far, in order
    execd,     \* statements executed at least once
    reexec,    \* statements executed more than once
    loaded,    \* names bound by a data loading statement so far
    computed,  \* names bound by an analysis call or derived from one
    early,     \* parameters configured before the data they apply to
    lastStage, \* stage of the last statement executed (0: none)
    maxStage,  \* highest stage executed so far
    jobsReq,   \* the n_jobs arguments passed to library calls so far
    fits       \* the model arguments of the VAR fits so far

kvars ==
    <<nb, pc, status, bound, frames, loops, handlers, ival, raised, out,
      cellsRun, execd, reexec, loaded, computed, early, lastStage, maxStage,
      jobsReq, fits>>

\* State of the machines of single cells (defined further below).
VARIABLES
    types,     \* seed cell: the channel types of the recording, by channel
    seedCh,    \* seed cell: the channel named by seed_ch
    badCh,     \* seed cell: the channel the cell adds to the bad channels
    bads,      \* seed cell: raw.info["bads"]
    picks,     \* seed cell: picks
    seed,      \* seed cell: seed (-1 before it is computed)
    targets,   \* seed cell: targets
    indices,   \* seed cell: indices, a pair of arrays
    sstep,     \* seed cell: statements done
    data,      \* VAR cells: epochs.get_data(), epochs of one channel
    conn,      \* VAR cells: the fitted model
    predicted_data, \* VAR cells: predicted_data
    residuals, \* VAR cells: residuals
    vstep,     \* VAR cells: cells done
    annotations,       \* event cells: eeglab_raw.annotations
    event_dict,        \* event cells: event_dict
    events_from_annot, \* event cells: events_from_annot
    default_events,    \* event cells: the events the default call returned
    estep,             \* event cells: cells done
    first_samp,        \* sample recording: raw.first_samp
    events,            \* sample recording: events found on STI 014
    annot_from_events, \* sample recording: annot_from_events
    raw_annotations,   \* sample recording: raw.annotations
    rem_events,        \* sample recording: rem_events
    rstep,             \* sample recording: cells done
    simdata,           \* simulated cases: data
    con_epochs_array,  \* simulated cases: con_epochs_array
    con_time_array,    \* simulated cases: con_time_array
    cstep              \* simulated cases: cells done

svars ==
    <<types, seedCh, badCh, bads, picks, seed, targets, indices, sstep>>

vvars ==
    <<data, conn, predicted_data, residuals, vstep>>

evars ==
    <<annotations, event_dict, events_from_annot, default_events, estep>>

rvars ==
    <<first_samp, events, annot_from_events, raw_annotations, rem_events,
      rstep>>

cvars ==
    <<simdata, con_epochs_array, con_time_array, cstep>>

vars ==
    <<kvars, svars, vvars, evars, rvars, cvars>>

\* The single-cell machines before they are started.
SIdle ==
    /\ types = <<>>
    /\ seedCh = 0
    /\ badCh = 0
    /\ bads = {}
    /\ picks = <<>>
    /\ seed = -1
    /\ targets = <<>>
    /\ indices = <<<<>>, <<>>>>
    /\ sstep = 0

VIdle ==
    /\ data = <<>>
    /\ conn = [model |-> "", coef |-> <<>>]
    /\ predicted_data = <<>>
    /\ residuals = <<>>
    /\ vstep = 0

EIdle ==
    /\ annotations = <<>>
    /\ event_dict = <<>>
    /\ events_from_annot = <<>>
    /\ default_events = <<>>
    /\ estep = 0

RIdle ==
    /\ first_samp = 0
    /\ events = <<>>
    /\ annot_from_events = [orig_time |-> "none", items |-> <<>>]
    /\ raw_annotations = [orig_time |-> "none", items |-> <<>>]
    /\ rem_events = <<>>
    /\ rstep = 0

CIdle ==
    /\ simdata = <<>>
    /\ con_epochs_array = <<>>
    /\ con_time_array = <<>>
    /\ cstep = 0

Cur ==
    Prog(nb)[pc]

AtStmt(op) ==
    /\ status = "running"
    /\ pc \in DOMAIN Prog(nb)
    /\ Cur.op = op

Locals ==
    IF frames = <<>> THEN {} ELSE frames[Len(frames)].locals

\* Python resolves a name in the function's locals, then the globals,
\* then the builtins.
Visible ==
    Locals \cup bound \cup Builtins

NamesOK(ins) ==
    ins.reads \subseteq Visible

\* An except clause that catches ValueError only.
HandlesValueError(T, exc) ==
    exc = "ValueError"

\* except T catches an exception of type exc.
Handles(T, exc) ==
    T = exc

\* Stage of the analysis a statement kind belongs to.
StageRank(kind) ==
    CASE kind = "load"   -> 1
      [] kind = "config" -> 2
      [] kind = "call"   -> 3
      [] kind = "plot"   -> 4
      [] OTHER           -> 0

\* Names a notebook binds by loading data.
DataNames(prog) ==
    UNION {prog[k].writes : k \in {m \in DOMAIN prog : prog[m].kind = "load"}}

\* Names a notebook binds by an analysis call or a derivation of one.
ResultNames(prog) ==
    UNION {prog[k].writes :
             k \in {m \in DOMAIN prog : prog[m].kind \in {"call", "derive"}}}

\* The data a parameter w configured at statement k applies to: the data
\* read by the first loading or analysis statement after k that takes w.
AppliesTo(prog, k, w) ==
    LET uses == {m \in (k+1)..Len(prog) :
                   w \in prog[m].reads /\ prog[m].kind \in {"load", "call"}}
    IN  IF uses = {} THEN {}
        ELSE LET first == CHOOSE m \in uses : \A o \in uses : m <= o
             IN  prog[first].reads \cap DataNames(prog)

\* The statement that defines function fn.
DefPc(prog, fn) ==
    CHOOSE k \in DOMAIN prog : prog[k].op = "def" /\ prog[k].fn = fn

\* The code cells of a notebook, in notebook order.
RECURSIVE SortedSeq(_)
SortedSeq(S) ==
    IF S = {} THEN <<>>
    ELSE LET m == CHOOSE x \in S : \A y \in S : x <= y
         IN  <<m>> \o SortedSeq(S \ {m})

CodeCells(prog) ==
    SortedSeq({prog[k].cell : k \in DOMAIN prog})

\* Bookkeeping of one executed statement: what ran, in which cell, which
\* stage, which names it loaded or computed, what it printed and passed.
Account(ins, W) ==
    /\ execd' = execd \cup {pc}
    /\ reexec' = IF pc \in execd THEN reexec \cup {pc} ELSE reexec
    /\ cellsRun' =
         IF frames = <<>> /\
            (cellsRun = <<>> \/ cellsRun[Len(cellsRun)] # ins.cell)
         THEN Append(cellsRun, ins.cell) ELSE cellsRun
    /\ lastStage' = StageRank(ins.kind)
    /\ maxStage' = IF StageRank(ins.kind) > maxStage
                   THEN StageRank(ins.kind) ELSE maxStage
    /\ loaded' = IF ins.kind = "load" THEN loaded \cup W ELSE loaded
    /\ computed' = IF ins.kind \in {"call", "derive"}
                   THEN computed \cup W ELSE computed
    /\ early' = IF ins.kind = "config"
                THEN early \cup
                     {w \in W : ~(AppliesTo(Prog(nb), pc, w) \subseteq loaded)}
                ELSE early
    /\ out' = IF ins.kind = "print" THEN Append(out, ins.msg) ELSE out
    /\ jobsReq' = IF ins.njobs # 0 THEN jobsReq \cup {ins.njobs} ELSE jobsReq
    /\ fits' = IF ins.fn = "vector_auto_regression"
               THEN Append(fits, ins.model) ELSE fits

\* Bind the names W and unbind the names D in the current scope.
Rebind(W, D) ==
    IF frames = <<>>
    THEN /\ bound' = (bound \cup W) \ D
         /\ frames' = frames
    ELSE /\ frames' = [frames EXCEPT
                         ![Len(frames)].locals = (@ \cup W) \ D]
         /\ bound' = bound

\* An exception of type exc leaves the current statement: control goes to
\* the innermost try statement whose except clause catches it, else the
\* cell stops and the kernel runs nothing further.
Raise(exc) ==
    /\ raised' = exc
    /\ IF handlers # <<>> /\ Handles(handlers[Len(handlers)].exc, exc)
       THEN /\ pc' = handlers[Len(handlers)].tgt
            /\ frames' = SubSeq(frames, 1, handlers[Len(handlers)].nframes)
            /\ loops' = SubSeq(loops, 1, handlers[Len(handlers)].nloops)
            /\ handlers' = SubSeq(handlers, 1, Len(handlers) - 1)
            /\ status' = status
       ELSE /\ status' = "aborted"
            /\ UNCHANGED <<pc, frames, loops, handlers>>
    /\ UNCHANGED <<nb, bound, ival, out, cellsRun, execd, reexec, loaded,
                   computed, early, lastStage, maxStage, jobsReq, fits>>

\* A simple statement: a NameError when a name it reads is unbound, an
\* exception of the library call when it raises one, else its bindings.
ExecStmt ==
    /\ AtStmt("exec")
    /\ UNCHANGED <<svars, vvars, evars, rvars, cvars>>
    /\ IF ~NamesOK(Cur) THEN Raise("NameError")
       ELSE \E o \in {"ok"} \cup Cur.raises :
              IF o # "ok" THEN Raise(o)
              ELSE /\ Rebind(Cur.writes, Cur.dels)
                   /\ ival' = IF Cur.iname # ""
                              THEN [ival EXCEPT ![Cur.iname] = Cur.ivalue]
                              ELSE ival
                   /\ pc' = pc + 1
                   /\ Account(Cur, Cur.writes)
                   /\ UNCHANGED <<nb, status, loops, handlers, raised>>

\* for: the iterable is evaluated once, on entry; each pass binds the loop
\* variable to the next item, and the loop is left when none remains.
ExecFor ==
    /\ AtStmt("for")
    /\ UNCHANGED <<svars, vvars, evars, rvars, cvars>>
    /\ LET entered == loops # <<>> /\ loops[Len(loops)].head = pc
           n == IF entered THEN loops[Len(loops)].n
                ELSE Cur.nbase + (IF Cur.nvar = "" THEN 0 ELSE ival[Cur.nvar])
           i == IF entered THEN loops[Len(loops)].i ELSE 0
           rest == IF entered THEN SubSeq(loops, 1, Len(loops) - 1) ELSE loops
       IN  IF ~entered /\ ~NamesOK([Cur EXCEPT !.reads = @ \ {Cur.var}])
           THEN Raise("NameError")
           ELSE /\ IF i < n
                   THEN /\ loops' = Append(rest, [head |-> pc, i |-> i + 1, n |-> n])
                        /\ ival' = [ival EXCEPT ![Cur.var] = i]
                        /\ Rebind({Cur.var}, {})
                        /\ pc' = pc + 1
                   ELSE /\ loops' = rest
                        /\ pc' = Cur.tgt
                        /\ UNCHANGED <<ival, bound, frames>>
                /\ Account(Cur, {})
                /\ UNCHANGED <<nb, status, handlers, raised>>

\* End of a loop body.
ExecEndFor ==
    /\ AtStmt("next")
    /\ UNCHANGED <<svars, vvars, evars, rvars, cvars>>
    /\ pc' = Cur.tgt
    /\ Account(Cur, {})
    /\ UNCHANGED <<nb, status, bound, frames, loops, handlers, ival, raised>>

\* continue
ExecContinue ==
    /\ AtStmt("jump")
    /\ UNCHANGED <<svars, vvars, evars, rvars, cvars>>
    /\ pc' = Cur.tgt
    /\ Account(Cur, {})
    /\ UNCHANGED <<nb, status, bound, frames, loops, handlers, ival, raised>>

\* if cl == cr + cc
ExecIf ==
    /\ AtStmt("if")
    /\ UNCHANGED <<svars, vvars, evars, rvars, cvars>>
    /\ IF ~NamesOK(Cur) THEN Raise("NameError")
       ELSE /\ pc' = IF ival[Cur.cl] =
                        (IF Cur.cr = "" THEN 0 ELSE ival[Cur.cr]) + Cur.cc
                     THEN pc + 1 ELSE Cur.tgt
            /\ Account(Cur, {})
            /\ UNCHANGED <<nb, status, bound, frames, loops, handlers, ival,
                           raised>>

\* try:
ExecTry ==
    /\ AtStmt("try")
    /\ UNCHANGED <<svars, vvars, evars, rvars, cvars>>
    /\ handlers' = Append(handlers, [exc |-> Cur.exc, tgt |-> Cur.tgt,
                                     nframes |-> Len(frames),
                                     nloops |-> Len(loops)])
    /\ pc' = pc + 1
    /\ Account(Cur, {})
    /\ UNCHANGED <<nb, status, bound, frames, loops, ival, raised>>

\* The try body ended without an exception: the handler is skipped.
ExecEndTry ==
    /\ AtStmt("endtry")
    /\ UNCHANGED <<svars, vvars, evars, rvars, cvars>>
    /\ handlers' = SubSeq(handlers, 1, Len(handlers) - 1)
    /\ pc' = Cur.tgt
    /\ Account(Cur, {})
    /\ UNCHANGED <<nb, status, bound, frames, loops, ival, raised>>

\* except exc as name: binds the exception caught.
ExecExcept ==
    /\ AtStmt("except")
    /\ UNCHANGED <<svars, vvars, evars, rvars, cvars>>
    /\ Rebind(Cur.writes, {})
    /\ pc' = pc + 1
    /\ Account(Cur, {})
    /\ UNCHANGED <<nb, status, loops, handlers, ival, raised>>

\* End of the handler: the exception's name is unbound again.
ExecEndExcept ==
    /\ AtStmt("endexcept")
    /\ UNCHANGED <<svars, vvars, evars, rvars, cvars>>
    /\ Rebind({}, Cur.dels)
    /\ pc' = pc + 1
    /\ Account(Cur, {})
    /\ UNCHANGED <<nb, status, loops, handlers, ival, raised>>

\* def: binds the function's name, the body is not run.
ExecDef ==
    /\ AtStmt("def")
    /\ UNCHANGED <<svars, vvars, evars, rvars, cvars>>
    /\ Rebind(Cur.writes, {})
    /\ pc' = Cur.tgt
    /\ Account(Cur, {})
    /\ UNCHANGED <<nb, status, loops, handlers, ival, raised>>

\* A statement calling one of the notebook's functions: the body runs in
\* a new frame whose locals are the parameters; the statement's own
\* bindings are made when the body returns.
ExecCall ==
    /\ AtStmt("call")
    /\ UNCHANGED <<svars, vvars, evars, rvars, cvars>>
    /\ IF ~NamesOK(Cur) THEN Raise("NameError")
       ELSE /\ frames' = Append(frames,
                           [ret |-> pc + 1, binds |-> Cur.writes,
                            kind |-> Cur.kind,
                            locals |-> Prog(nb)[DefPc(Prog(nb), Cur.fn)].params])
            /\ pc' = DefPc(Prog(nb), Cur.fn) + 1
            /\ Account(Cur, {})
            /\ UNCHANGED <<nb, status, bound, loops, handlers, ival, raised>>

\* return: the frame is dropped and the calling statement completes.
ExecReturn ==
    /\ AtStmt("ret")
    /\ UNCHANGED <<svars, vvars, evars, rvars, cvars>>
    /\ frames # <<>>
    /\ IF ~NamesOK(Cur) THEN Raise("NameError")
       ELSE LET fr == frames[Len(frames)]
                up == SubSeq(frames, 1, Len(frames) - 1)
            IN  /\ IF up = <<>>
                   THEN /\ bound' = bound \cup fr.binds
                        /\ frames' = up
                   ELSE /\ frames' = [up EXCEPT
                                        ![Len(up)].locals = @ \cup fr.binds]
                        /\ bound' = bound
                /\ pc' = fr.ret
                /\ Account([Cur EXCEPT !.kind = fr.kind], fr.binds)
                /\ UNCHANGED <<nb, status, loops, handlers, ival, raised>>

\* The last cell has run.
Finish ==
    /\ status = "running"
    /\ UNCHANGED <<svars, vvars, evars, rvars, cvars>>
    /\ pc = Len(Prog(nb)) + 1
    /\ status' = "done"
    /\ UNCHANGED <<nb, pc, bound, frames, loops, handlers, ival, raised, out,
                   cellsRun, execd, reexec, loaded, computed, early,
                   lastStage, maxStage, jobsReq, fits>>

KInit ==
    /\ nb \in Notebooks
    /\ pc = 1
    /\ status = "running"
    /\ bound = {}
    /\ frames = <<>>
    /\ loops = <<>>
    /\ handlers = <<>>
    /\ ival = [x \in IntNames |-> 0]
    /\ raised = ""
    /\ out = <<>>
    /\ cellsRun = <<>>
    /\ execd = {}
    /\ reexec = {}
    /\ loaded = {}
    /\ computed = {}
    /\ early = {}
    /\ lastStage = 0
    /\ maxStage = 0
    /\ jobsReq = {}
    /\ fits = <<>>

\* The kernel does not run.
KIdle ==
    /\ nb = ""
    /\ pc = 0
    /\ status = "off"
    /\ bound = {}
    /\ frames = <<>>
    /\ loops = <<>>
    /\ handlers = <<>>
    /\ ival = [x \in IntNames |-> 0]
    /\ raised = ""
    /\ out = <<>>
    /\ cellsRun = <<>>
    /\ execd = {}
    /\ reexec = {}
    /\ loaded = {}
    /\ computed = {}
    /\ early = {}
    /\ lastStage = 0
    /\ maxStage = 0
    /\ jobsReq = {}
    /\ fits = <<>>

KNext ==
    \/ ExecStmt
    \/ ExecFor
    \/ ExecEndFor
    \/ ExecContinue
    \/ ExecIf
    \/ ExecTry
    \/ ExecEndTry
    \/ ExecExcept
    \/ ExecEndExcept
    \/ ExecDef
    \/ ExecCall
    \/ ExecReturn
    \/ Finish

----------------------------------------------------------------------------
\* Properties of the kernel.

Running ==
    status = "running" /\ pc \in DOMAIN Prog(nb)

Range(s) ==
    {s[k] : k \in DOMAIN s}

Count(s, x) ==
    Cardinality({k \in DOMAIN s : s[k] = x})

\* Names of the statement about to run that it resolves globally.
GlobalReads ==
    Cur.reads \ Locals

\* C1 (as stated): every notebook is linear, load, then configure, then
\* call, then plot: the stage never goes back, and no parameter is
\* configured before the data it applies to has been loaded.
C1_LinearStages ==
    /\ lastStage # 0 => lastStage = maxStage
    /\ early = {}

\* C1 (amended): the stages interleave and repeat, and parameters may be
\* set before the data is read, but no analysis call runs before the data
\* it takes has been loaded and no plot runs before the call or derivation
\* that produces the result it shows.
C1_DataBeforeUse ==
    Running =>
      /\ Cur.kind = "call" =>
           (GlobalReads \cap DataNames(Prog(nb))) \subseteq loaded
      /\ Cur.kind = "plot" =>
           (GlobalReads \cap ResultNames(Prog(nb))) \subseteq computed

\* A notebook ran to its end, through calls on loaded data and plots of
\* computed results, after configuring a parameter ahead of its data.
C1_Witness ==
    /\ status = "done"
    /\ maxStage = 4
    /\ early # {}
    /\ loaded # {}
    /\ computed # {}

\* C2 (as stated): no cell contains control flow: every statement is a
\* simple statement and none runs twice.
C2_NoControlFlow ==
    /\ Running => Cur.op = "exec"
    /\ reexec = {}

\* C2 (amended): between cells there is no control flow: the code cells
\* run in notebook order, each started once and none skipped; within a
\* cell there are loops, conditionals, a try statement, a generator and
\* function definitions.
C2_CellsInOrder ==
    /\ Len(cellsRun) <= Len(CodeCells(Prog(nb)))
    /\ \A k \in DOMAIN cellsRun : cellsRun[k] = CodeCells(Prog(nb))[k]
    /\ status = "done" => cellsRun = CodeCells(Prog(nb))

\* A notebook whose cells loop ran all of its cells.
C2_Witness ==
    /\ status = "done"
    /\ reexec # {}
    /\ cellsRun = CodeCells(Prog(nb))
    /\ Len(cellsRun) > 1

\* C3: every name a statement reads was bound by an earlier statement and
\* has not been deleted since: no statement raises NameError, also in the
\* bodies of bp_gen, plot_corr, plot_degree and plot_con_matrix and after
\* the del statements of the envelope notebook.
C3_NamesBound ==
    /\ raised # "NameError"
    /\ Running /\ Cur.op # "for" => NamesOK(Cur)

\* The envelope notebook ran to its end: the deleted names are unbound and
\* the functions reading globals have been called.
C3_Witness ==
    /\ nb = "Envelope"
    /\ status = "done"
    /\ bound \cap {"src", "fwd", "raw", "projs_ecg", "projs_eog", "stcs",
                   "epochs"} = {}
    /\ {"bp_gen", "plot_corr", "plot_degree", "corr"} \subseteq bound

\* C4: the Granger notebook guards spectral_connectivity_epochs(rank=None)
\* with try/except RuntimeError: a RuntimeError does not stop the
\* notebook, "Success!" is printed exactly when the call did not raise,
\* the caught error exactly when it did, and so exactly one of the two.
C4_Guarded ==
    nb = "Granger" =>
      /\ raised = "RuntimeError" => status # "aborted"
      /\ status = "done" =>
           /\ Count(out, "Success!") = (IF raised = "" THEN 1 ELSE 0)
           /\ Count(out, "Caught the following error:") =
                (IF raised = "RuntimeError" THEN 1 ELSE 0)
           /\ Count(out, "Success!") +
                Count(out, "Caught the following error:") = 1

\* The guarded call raised and the notebook still ran to its end.
C4_Witness ==
    /\ nb = "Granger"
    /\ status = "done"
    /\ raised = "RuntimeError"
    /\ "Success!" \notin Range(out)

\* Modules and classes that start threads, processes or coroutines.
ConcurrencyNames ==
    {"threading", "multiprocessing", "asyncio", "concurrent", "subprocess",
     "joblib", "Thread", "Process", "Pool", "Parallel",
     "ThreadPoolExecutor", "ProcessPoolExecutor"}

C6_TwoJobs ==
    nb \in {"Coherence", "SeedTF"} /\ status = "done" => jobsReq = {2}

----------------------------------------------------------------------------
\* The seed/target selection of the seed-based time-frequency notebook.
\* Channels are numbered from 0, as Python and numpy index them.

\* Largest number of channels of a recording.
MaxCh == 3

ChTypes ==
    {"grad", "mag", "eeg", "eog", "stim"}

Channels ==
    0..(Len(types) - 1)

TypeOf(c) ==
    types[c + 1]

\* mne.pick_types(info, meg="grad", eeg=False, stim=False, eog=True,
\* exclude="bads"): the channels of the types asked for that are not bad,
\* in channel order.
PickTypes(meg, eeg, stim, eog, exclude) ==
    SortedSeq({c \in Channels :
                 /\ \/ TypeOf(c) = meg
                    \/ eeg /\ TypeOf(c) = "eeg"
                    \/ stim /\ TypeOf(c) = "stim"
                    \/ eog /\ TypeOf(c) = "eog"
                 /\ c \notin exclude})

\* list.index: the position, from 0, of the first occurrence of x.
Index(s, x) ==
    (CHOOSE k \in DOMAIN s : s[k] = x /\ \A m \in 1..(k - 1) : s[m] # x) - 1

\* np.arange(n)
Arange(n) ==
    [k \in 1..n |-> k - 1]

\* seed_target_indices(seeds, targets) for one seed: every target is
\* paired with the seed.
SeedTargetIndices(s, t) ==
    <<[k \in DOMAIN t |-> s], t>>

\* A recording whose seed channel and added bad channel are distinct
\* gradiometers and whose seed channel is not marked bad in the file.
SInit ==
    /\ \E n \in 2..MaxCh : types \in [1..n -> ChTypes]
    /\ seedCh \in Channels
    /\ badCh \in Channels \ {seedCh}
    /\ TypeOf(seedCh) = "grad"
    /\ TypeOf(badCh) = "grad"
    /\ bads \in SUBSET (Channels \ {seedCh})
    /\ picks = <<>>
    /\ seed = -1
    /\ targets = <<>>
    /\ indices = <<<<>>, <<>>>>
    /\ sstep = 0

\* raw.info["bads"] += ["MEG 2443"]
AddBad ==
    /\ sstep = 0
    /\ bads' = bads \cup {badCh}
    /\ sstep' = 1
    /\ UNCHANGED <<types, seedCh, badCh, picks, seed, targets, indices>>
    /\ UNCHANGED <<kvars, vvars, evars, rvars, cvars>>

\* picks = mne.pick_types(raw.info, meg="grad", eeg=False, stim=False,
\*                        eog=True, exclude="bads")
Pick ==
    /\ sstep = 1
    /\ picks' = PickTypes("grad", FALSE, FALSE, TRUE, bads)
    /\ sstep' = 2
    /\ UNCHANGED <<types, seedCh, badCh, bads, seed, targets, indices>>
    /\ UNCHANGED <<kvars, vvars, evars, rvars, cvars>>

\* seed = picks_ch_names.index(seed_ch)
SeedIndex ==
    /\ sstep = 2
    /\ seed' = Index(picks, seedCh)
    /\ sstep' = 3
    /\ UNCHANGED <<types, seedCh, badCh, bads, picks, targets, indices>>
    /\ UNCHANGED <<kvars, vvars, evars, rvars, cvars>>

\* targets = np.arange(len(picks))
MakeTargets ==
    /\ sstep = 3
    /\ targets' = Arange(Len(picks))
    /\ sstep' = 4
    /\ UNCHANGED <<types, seedCh, badCh, bads, picks, seed, indices>>
    /\ UNCHANGED <<kvars, vvars, evars, rvars, cvars>>

\* indices = seed_target_indices(seed, targets)
MakeIndices ==
    /\ sstep = 4
    /\ indices' = SeedTargetIndices(seed, targets)
    /\ sstep' = 5
    /\ UNCHANGED <<types, seedCh, badCh, bads, picks, seed, targets>>
    /\ UNCHANGED <<kvars, vvars, evars, rvars, cvars>>

SNext ==
    \/ AddBad
    \/ Pick
    \/ SeedIndex
    \/ MakeTargets
    \/ MakeIndices

InitSeed ==
    KIdle /\ SInit /\ VIdle /\ EIdle /\ RIdle /\ CIdle

SpecSeed ==
    InitSeed /\ [][SNext]_vars

\* The channels the connections of indices lead to.
TargetChannels ==
    {picks[indices[2][k] + 1] : k \in DOMAIN indices[2]}

\* C7: the targets passed in indices are exactly the gradiometers that are
\* not bad, other than the seed: neither the seed itself nor a channel of
\* another type is a target, and there is one connection per target, each
\* from the seed.
C7_TargetsAreOtherGrads ==
    sstep = 5 =>
      /\ TargetChannels =
           {c \in Channels :
              TypeOf(c) = "grad" /\ c \notin bads /\ c # seedCh}
      /\ Len(indices[1]) = Cardinality(TargetChannels)
      /\ \A k \in DOMAIN indices[1] : picks[indices[1][k] + 1] = seedCh

----------------------------------------------------------------------------
\* The fits and evaluations of the VAR notebook, on epochs of one channel
\* and a model of one lag (the default of vector_auto_regression).

\* Number of epochs and of samples per epoch.
NumEpochs == 2

NumTimes == 3

Samples ==
    {0, 1}

Coefs ==
    {-1, 0, 1}

RECURSIVE SumOver(_, _)
SumOver(s, k) ==
    IF k = 0 THEN 0 ELSE s[k] + SumOver(s, k - 1)

\* The model's prediction of one epoch x: sample t from sample t-1, the
\* first sample left at 0.
PredictEpoch(a, x) ==
    [t \in DOMAIN x |-> IF t = 1 THEN 0 ELSE a * x[t - 1]]

\* Squared error of coefficient a on epoch x.
SqErr(a, x) ==
    LET p == PredictEpoch(a, x)
        sq == [t \in DOMAIN x |-> IF t = 1 THEN 0
                                   ELSE (x[t] - p[t]) * (x[t] - p[t])]
    IN  SumOver(sq, Len(sq))

\* Least-squares coefficient over the epochs in E of d (the smallest one
\* when several fit equally well).
LeastSquares(d, E) ==
    LET err(a) == SumOver([e \in 1..Len(d) |->
                             IF e \in E THEN SqErr(a, d[e]) ELSE 0], Len(d))
        best == {a \in Coefs : \A b \in Coefs : err(a) <= err(b)}
    IN  CHOOSE a \in best : \A b \in best : a <= b

\* vector_auto_regression(data, model=...): "dynamic" (the default) fits
\* one model per epoch, "avg-epochs" one model over all epochs.
VectorAutoRegression(d, model) ==
    IF model = "avg-epochs"
    THEN [model |-> model, coef |-> <<LeastSquares(d, DOMAIN d)>>]
    ELSE [model |-> "dynamic",
          coef |-> [e \in DOMAIN d |-> LeastSquares(d, {e})]]

\* conn.predict(d): d is the 3D array of all epochs for a model per
\* epoch, and one 2D epoch for a single model; the result is 3D.
Predict(c, d) ==
    IF c.model = "avg-epochs"
    THEN <<PredictEpoch(c.coef[1], d)>>
    ELSE [e \in DOMAIN d |-> PredictEpoch(c.coef[e], d[e])]

\* numpy's d - p for 3D arrays: an array of one epoch is broadcast over
\* the epochs of the other.
Subtract(d, p) ==
    [e \in DOMAIN d |->
       [t \in DOMAIN d[e] |->
          d[e][t] - p[IF Len(p) = 1 THEN 1 ELSE e][t]]]

VInit ==
    /\ data \in [1..NumEpochs -> [1..NumTimes -> Samples]]
    /\ conn = [model |-> "", coef |-> <<>>]
    /\ predicted_data = <<>>
    /\ residuals = <<>>
    /\ vstep = 0

\* conn = vector_auto_regression(data=epochs.get_data(), times=times,
\*                               names=ch_names)
FitPerEpoch ==
    /\ vstep = 0
    /\ conn' = VectorAutoRegression(data, "")
    /\ vstep' = 1
    /\ UNCHANGED <<data, predicted_data, residuals>>
    /\ UNCHANGED <<kvars, svars, evars, rvars, cvars>>

\* predicted_data = conn.predict(epochs.get_data())
\* residuals = epochs.get_data() - predicted_data
EvaluatePerEpoch ==
    /\ vstep = 1
    /\ predicted_data' = Predict(conn, data)
    /\ residuals' = Subtract(data, predicted_data')
    /\ vstep' = 2
    /\ UNCHANGED <<data, conn>>
    /\ UNCHANGED <<kvars, svars, evars, rvars, cvars>>

\* conn = vector_auto_regression(..., model="avg-epochs")
FitAllEpochs ==
    /\ vstep = 2
    /\ conn' = VectorAutoRegression(data, "avg-epochs")
    /\ vstep' = 3
    /\ UNCHANGED <<data, predicted_data, residuals>>
    /\ UNCHANGED <<kvars, svars, evars, rvars, cvars>>

\* first_epoch = epochs.get_data()[0, ...]
\* predicted_data = conn.predict(first_epoch)
\* residuals = epochs.get_data() - predicted_data
EvaluateAllEpochs ==
    /\ vstep = 3
    /\ predicted_data' = Predict(conn, data[1])
    /\ residuals' = Subtract(data, predicted_data')
    /\ vstep' = 4
    /\ UNCHANGED <<data, conn>>
    /\ UNCHANGED <<kvars, svars, evars, rvars, cvars>>

VNext ==
    \/ FitPerEpoch
    \/ EvaluatePerEpoch
    \/ FitAllEpochs
    \/ EvaluateAllEpochs

InitVAR ==
    KIdle /\ SIdle /\ VInit /\ EIdle /\ RIdle /\ CIdle

SpecVAR ==
    InitVAR /\ [][VNext]_vars

\* C9: in the second evaluation, as in the first, the residuals of every
\* epoch e are the data of epoch e minus the model's prediction of that
\* same epoch e.
C9_ResidualsOfSameEpoch ==
    vstep \in {2, 4} =>
      \A e \in DOMAIN data :
        residuals[e] =
          [t \in DOMAIN data[e] |->
             data[e][t] -
               PredictEpoch(conn.coef[IF Len(conn.coef) = 1 THEN 1 ELSE e],
                            data[e])[t]]


----------------------------------------------------------------------------
\* Annotations to events in the event array notebook.  Onsets are counted
\* in half sample periods, so that an onset can fall between two samples.

\* Largest number of annotations of a recording, and latest onset.
MaxAnnot == 3

MaxOnset == 4

\* The annotation descriptions of the EEGLAB test recording, in sorted
\* order.
Descriptions ==
    <<"rt", "square">>

DescRank(d) ==
    CHOOSE k \in DOMAIN Descriptions : Descriptions[k] = d

\* np.round(onset * sfreq): the nearest sample, the even one of two that
\* are equally near.
RoundToSample(h) ==
    IF h % 2 = 0 THEN h \div 2
    ELSE IF ((h - 1) \div 2) % 2 = 0 THEN (h - 1) \div 2
    ELSE (h + 1) \div 2

\* custom_mapping = {"rt": 77, "square": 42}
CustomRt == 77

CustomSquare == 42

custom_mapping ==
    [d \in {"rt", "square"} |-> IF d = "rt" THEN CustomRt ELSE CustomSquare]

\* event_id="auto", the default of events_from_annotations.
Auto ==
    [d \in {"auto"} |-> 0]

\* The ids of the default event_id: the descriptions in use are numbered
\* from 1 in sorted order.
AutoIds(event_id, used) ==
    [d \in used |->
       1 + Cardinality({o \in used : DescRank(o) < DescRank(d)})]

\* Ids that disregard the dict passed and number the descriptions anew.
IdsDisregardingDict(event_id, used) ==
    AutoIds(Auto, used)

\* The ids of a dict event_id: its entries for the descriptions in use.
DictIds(event_id, used) ==
    [d \in used \cap DOMAIN event_id |-> event_id[d]]

\* The subsequence of s of the elements at the positions in K.
RECURSIVE SelectAt(_, _, _)
SelectAt(s, K, k) ==
    IF k > Len(s) THEN <<>>
    ELSE (IF k \in K THEN <<s[k]>> ELSE <<>>) \o SelectAt(s, K, k + 1)

\* mne.events_from_annotations(raw, event_id): one event at the onset of
\* every annotation whose description has an id, and the ids used.
EventsFromAnnotations(annots, event_id) ==
    LET used == {annots[k].description : k \in DOMAIN annots}
        ids == IF event_id = Auto THEN AutoIds(event_id, used)
               ELSE DictIds(event_id, used)
        sel == {k \in DOMAIN annots : annots[k].description \in DOMAIN ids}
        ev == [k \in DOMAIN annots |->
                 <<RoundToSample(annots[k].onset), 0,
                   IF k \in sel THEN ids[annots[k].description] ELSE 0>>]
    IN  <<SelectAt(ev, sel, 1), ids>>

\* The annotations a recording can hold: in order of onset, and, as in
\* the EEGLAB test recording, with both descriptions occurring.
AnnotationLists ==
    UNION {
      {a \in [1..n -> [onset : 0..MaxOnset,
                       description : {"rt", "square"}]] :
         /\ \A k \in 1..(n - 1) : a[k].onset <= a[k + 1].onset
         /\ {a[k].description : k \in 1..n} = {"rt", "square"}}
      : n \in 2..MaxAnnot}

\* eeglab_raw = mne.io.read_raw_eeglab(eeglab_raw_file)
ReadRawEeglab ==
    /\ estep = 0
    /\ annotations' \in AnnotationLists
    /\ estep' = 1
    /\ UNCHANGED <<event_dict, events_from_annot, default_events>>
    /\ UNCHANGED <<kvars, svars, vvars, rvars, cvars>>

\* events_from_annot, event_dict = mne.events_from_annotations(eeglab_raw)
EventsDefault ==
    /\ estep = 1
    /\ LET r == EventsFromAnnotations(annotations, Auto)
       IN  /\ events_from_annot' = r[1]
           /\ event_dict' = r[2]
           /\ default_events' = r[1]
    /\ estep' = 2
    /\ UNCHANGED annotations
    /\ UNCHANGED <<kvars, svars, vvars, rvars, cvars>>

\* (events_from_annot, event_dict) = mne.events_from_annotations(
\*     eeglab_raw, event_id=custom_mapping)
EventsCustom ==
    /\ estep = 2
    /\ LET r == EventsFromAnnotations(annotations, custom_mapping)
       IN  /\ events_from_annot' = r[1]
           /\ event_dict' = r[2]
    /\ estep' = 3
    /\ UNCHANGED <<annotations, default_events>>
    /\ UNCHANGED <<kvars, svars, vvars, rvars, cvars>>

ENext ==
    \/ ReadRawEeglab
    \/ EventsDefault
    \/ EventsCustom

InitEvents ==
    KIdle /\ SIdle /\ VIdle /\ EIdle /\ RIdle /\ CIdle

SpecEvents ==
    InitEvents /\ [][ENext]_vars

\* C10: the dict passed as event_id comes back as event_dict with the
\* same keys and values, {"rt": 77, "square": 42}; the third column of
\* every event is the value of its annotation's description, and the
\* events are as many, at the same samples, as with the default mapping.
C10_DictReturned ==
    estep = 3 =>
      /\ event_dict = custom_mapping
      /\ DOMAIN event_dict = {"rt", "square"}
      /\ event_dict["rt"] = 77 /\ event_dict["square"] = 42
      /\ Len(events_from_annot) = Len(annotations)
      /\ \A k \in DOMAIN events_from_annot :
           events_from_annot[k][3] = custom_mapping[annotations[k].description]
      /\ Len(events_from_annot) = Len(default_events)
      /\ \A k \in DOMAIN events_from_annot :
           events_from_annot[k][1] = default_events[k][1]

\* The call with the dict has returned events of both descriptions, one
\* of them at an onset between two samples.
C10_Witness ==
    /\ estep = 3
    /\ {events_from_annot[k][3] : k \in DOMAIN events_from_annot} = {77, 42}
    /\ \E k \in DOMAIN annotations : annotations[k].onset % 2 = 1

----------------------------------------------------------------------------
\* Events and annotations of the sample recording in the event array
\* notebook.  Times are exact: they are counted in ticks, of which a
\* sample period holds 2 * SfreqDen and a second 2 * SfreqNum, for a
\* sampling frequency of SfreqNum / SfreqDen Hz.

\* raw.info["sfreq"], as the notebook's output shows it: 600.61 Hz.
SfreqNum == 60061

SfreqDen == 100

\* Samples of the recording after raw.crop(tmax=60).
NumSamples == 36038

\* Largest number of events found on the stim channel.
MaxEvents == 2

TicksPerSample ==
    2 * SfreqDen

\* The time of h half seconds.
HalfSeconds(h) ==
    h * SfreqNum

\* np.round(n / d) for n >= 0: the nearest integer, the even one of two
\* that are equally near.
RoundDiv(n, d) ==
    LET q == n \div d
        r == n % d
    IN  IF 2 * r < d THEN q
        ELSE IF 2 * r > d THEN q + 1
        ELSE IF q % 2 = 0 THEN q ELSE q + 1

\* The sample nearest to time T, and the time of sample k.
TimeToSample(T) ==
    RoundDiv(T, TicksPerSample)

SampleToTime(k) ==
    k * TicksPerSample

\* raw._first_time: the time of the first recorded sample, counted from
\* raw.info["meas_date"].
FirstTime ==
    SampleToTime(first_samp)

\* Event codes on STI 014, and mapping, the descriptions given to them.
EventCodes ==
    {1, 2, 3, 4, 5, 32}

mapping ==
    [c \in {1, 2, 3, 4, 5, 32} |->
       CASE c = 1 -> "auditory/left"
         [] c = 2 -> "auditory/right"
         [] c = 3 -> "visual/left"
         [] c = 4 -> "visual/right"
         [] c = 5 -> "smiley"
         [] OTHER -> "buttonpress"]

\* The orig_time argument of annotations_from_events without the
\* measurement date.
OrigTimeNone(t) ==
    "none"

\* The orig_time argument annotations_from_events receives.
OrigTimeArg(t) ==
    t

\* mne.annotations_from_events(events, sfreq, event_desc, first_samp=0,
\* orig_time): one annotation of no duration for every event whose code
\* has a description, at onset (sample - first_samp) / sfreq.
AnnotationsFromEvents(ev, event_desc, fs, orig_time) ==
    LET sel == {k \in DOMAIN ev : ev[k][3] \in DOMAIN event_desc}
        an == [k \in DOMAIN ev |->
                 [onset |-> SampleToTime(ev[k][1] - fs), duration |-> 0,
                  description |-> IF k \in sel THEN event_desc[ev[k][3]]
                                  ELSE ""]]
    IN  [orig_time |-> orig_time, items |-> SelectAt(an, sel, 1)]

\* raw.set_annotations(a): onsets without orig_time count from the first
\* recorded sample and are moved to count from the measurement date;
\* annotations outside the recorded data are omitted.
SetAnnotations(a) ==
    LET shift == IF a.orig_time = "none" THEN FirstTime ELSE 0
        moved == [k \in DOMAIN a.items |->
                    [a.items[k] EXCEPT !.onset = @ + shift]]
        inside == {k \in DOMAIN moved :
                     /\ moved[k].onset + moved[k].duration >= FirstTime
                     /\ moved[k].onset <=
                          FirstTime + SampleToTime(NumSamples - 1)}
    IN  [orig_time |-> "meas_date", items |-> SelectAt(moved, inside, 1)]

\* raw.time_as_index(T, origin) that takes T to count from the first
\* recorded sample whatever the origin.
TimeAsIndexFromStart(T, origin) ==
    TimeToSample(T)

\* raw.time_as_index(T, origin=orig_time): the index, from the first
\* recorded sample, of the time T counted from origin.
TimeAsIndex(T, origin) ==
    TimeToSample(IF origin = "none" THEN T ELSE T - FirstTime)

\* The events of one annotation for chunk_duration = chunk: one every
\* chunk from the onset on, as long as a whole chunk fits before the
\* annotation's end.
RECURSIVE ChunkEvents(_, _, _, _, _)
ChunkEvents(T, offset, chunk, origin, id) ==
    IF offset - T < chunk THEN <<>>
    ELSE <<<<TimeAsIndex(T, origin) + first_samp, 0, id>>>>
         \o ChunkEvents(T + chunk, offset, chunk, origin, id)

\* mne.events_from_annotations(raw, chunk_duration=chunk) for annotations
\* that share one description, which gets the id 1.
RECURSIVE EventsFromChunks(_, _, _)
EventsFromChunks(a, chunk, k) ==
    IF k > Len(a.items) THEN <<>>
    ELSE ChunkEvents(a.items[k].onset,
                     a.items[k].onset + a.items[k].duration,
                     chunk, a.orig_time, 1)
         \o EventsFromChunks(a, chunk, k + 1)

\* rem_annot = mne.Annotations(onset=[5, 41], duration=[16, 11],
\*                             description=["REM"] * 2)
rem_annot ==
    [orig_time |-> "none",
     items |-> <<[onset |-> HalfSeconds(10), duration |-> HalfSeconds(32),
                  description |-> "REM"],
                 [onset |-> HalfSeconds(82), duration |-> HalfSeconds(22),
                  description |-> "REM"]>>]

\* chunk_duration=1.5
chunk_duration ==
    HalfSeconds(3)

\* Sample numbers a recording can start at, and where, counted from the
\* first sample, events can lie.
FirstSamps ==
    {0, 7, 25800}

EventOffsets ==
    {0, 1, 2177, NumSamples - 1}

\* The events find_events can return: at increasing samples of the
\* recording, with the codes of the stim channel.
EventLists ==
    UNION {
      {e \in [1..n -> (EventOffsets \X {0}) \X EventCodes] :
         \A k \in 1..(n - 1) : e[k][1][1] < e[k + 1][1][1]}
      : n \in 1..MaxEvents}

\* raw = mne.io.read_raw_fif(sample_data_raw_file)
\* raw.crop(tmax=60).load_data()
ReadRawFif ==
    /\ rstep = 0
    /\ first_samp' \in FirstSamps
    /\ raw_annotations' = [orig_time |-> "meas_date", items |-> <<>>]
    /\ rstep' = 1
    /\ UNCHANGED <<events, annot_from_events, rem_events>>
    /\ UNCHANGED <<kvars, svars, vvars, evars, cvars>>

\* events = mne.find_events(raw, stim_channel="STI 014")
FindEvents ==
    /\ rstep = 1
    /\ \E e \in EventLists :
         events' = [k \in DOMAIN e |->
                      <<e[k][1][1] + first_samp, 0, e[k][2]>>]
    /\ rstep' = 2
    /\ UNCHANGED <<first_samp, annot_from_events, raw_annotations, rem_events>>
    /\ UNCHANGED <<kvars, svars, vvars, evars, cvars>>

\* annot_from_events = mne.annotations_from_events(events=events,
\*     event_desc=mapping, sfreq=raw.info["sfreq"],
\*     orig_time=raw.info["meas_date"])
\* raw.set_annotations(annot_from_events)
ConvertEvents ==
    /\ rstep = 2
    /\ annot_from_events' =
         AnnotationsFromEvents(events, mapping, 0, OrigTimeArg("meas_date"))
    /\ raw_annotations' = SetAnnotations(annot_from_events')
    /\ rstep' = 3
    /\ UNCHANGED <<first_samp, events, rem_events>>
    /\ UNCHANGED <<kvars, svars, vvars, evars, cvars>>

\* raw.set_annotations(rem_annot)
\* (rem_events, rem_event_dict) = mne.events_from_annotations(
\*     raw, chunk_duration=1.5)
ChunkRem ==
    /\ rstep = 3
    /\ raw_annotations' = SetAnnotations(rem_annot)
    /\ rem_events' = EventsFromChunks(raw_annotations', chunk_duration, 1)
    /\ rstep' = 4
    /\ UNCHANGED <<first_samp, events, annot_from_events>>
    /\ UNCHANGED <<kvars, svars, vvars, evars, cvars>>

RNext ==
    \/ ReadRawFif
    \/ FindEvents
    \/ ConvertEvents
    \/ ChunkRem

InitRaw ==
    KIdle /\ SIdle /\ VIdle /\ EIdle /\ RIdle /\ CIdle

SpecRaw ==
    InitRaw /\ [][RNext]_vars

\* The time of event k of rem_events, counted from the first recorded
\* sample: (rem_events[k, 0] - raw.first_samp) / sfreq.
RemTime(k) ==
    SampleToTime(rem_events[k][1] - first_samp)

\* The REM spans: 5 s to 21 s and 41 s to 52 s.
RemSpans ==
    {[lo |-> HalfSeconds(10), hi |-> HalfSeconds(42)],
     [lo |-> HalfSeconds(82), hi |-> HalfSeconds(104)]}

\* The span event k belongs to: the one whose start it is nearest to
\* among those starting at most a sample after it.
SpanOf(k) ==
    CHOOSE s \in RemSpans :
      /\ s.lo - TicksPerSample <= RemTime(k)
      /\ \A o \in RemSpans :
           o.lo - TicksPerSample <= RemTime(k) => o.lo <= s.lo

\* Consecutive events of one span are 1.5 s apart, up to one sample.
RemSpacing ==
    \A k \in 1..(Len(rem_events) - 1) :
      SpanOf(k) = SpanOf(k + 1) =>
        /\ RemTime(k + 1) - RemTime(k) - chunk_duration <= TicksPerSample
        /\ chunk_duration - (RemTime(k + 1) - RemTime(k)) <= TicksPerSample

PositionInRecording(item) ==
    item.onset - FirstTime

\* C12: converting the events found on STI 014 with sfreq and
\* orig_time=raw.info["meas_date"] and setting the result on raw aligns
\* the onsets with the recording: every event yields one annotation, its
\* description is mapping[event code], it lies (event sample -
\* raw.first_samp) / sfreq after the first recorded sample, which is the
\* event's sample, and every code found has an entry in mapping, so that
\* no event is dropped.
C12_OnsetsAligned ==
    rstep = 3 =>
      /\ \A k \in DOMAIN events : events[k][3] \in DOMAIN mapping
      /\ Len(annot_from_events.items) = Len(events)
      /\ Len(raw_annotations.items) = Len(events)
      /\ \A k \in DOMAIN raw_annotations.items :
           /\ raw_annotations.items[k].description = mapping[events[k][3]]
           /\ PositionInRecording(raw_annotations.items[k]) =
                SampleToTime(events[k][1] - first_samp)
           /\ TimeToSample(PositionInRecording(raw_annotations.items[k]))
                + first_samp = events[k][1]

\* Two events of a recording that does not start at sample 0 have been
\* converted and set on raw.
C12_Witness ==
    /\ rstep = 3
    /\ first_samp > 0
    /\ Len(events) = 2
    /\ Len(raw_annotations.items) = 2

(***************************************************************************)
(* Simulated cases of the over-time / over-trials notebook                 *)
(* (11_compare_connectivity_over_time_over_trial.ipynb).                    *)
(*                                                                         *)
(* A signal is a sequence of integer samples that holds two periods of the *)
(* analysed alpha-band frequency at four samples per period, so that the   *)
(* wavelet coefficient of a period is a Gaussian integer <<re, im>> and    *)
(* every connectivity value is an exact ratio.  The notebook simulates     *)
(* n_epochs = 5 epochs; the model simulates SimEpochs of them.             *)
(***************************************************************************)

SimEpochs == 2

n_channels == 3

connectivity_methods ==
    <<"coh", "plv">>

\* the analysing wavelet over one period: exp(-i * t * pi/2), t = 0..3
Wavelet ==
    <<  <<1, 0>>, <<0, -1>>, <<-1, 0>>, <<0, 1>>  >>

\* the time points at which a coefficient is taken (one per period)
TimePoints ==
    {1, 2}

CMul(a, b) ==
    <<a[1] * b[1] - a[2] * b[2], a[1] * b[2] + a[2] * b[1]>>

Abs2(a) ==
    a[1] * a[1] + a[2] * a[2]

\* z / |z|, exact for the z on the real or imaginary axis that the
\* signals of the model give
Unit(z) ==
    LET Sign(x) == IF x > 0 THEN 1 ELSE IF x < 0 THEN -1 ELSE 0
    IN  <<Sign(z[1]), Sign(z[2])>>

RECURSIVE CSum(_, _)
CSum(s, k) ==
    IF k = 0 THEN <<0, 0>>
    ELSE LET r == CSum(s, k - 1) IN <<s[k][1] + r[1], s[k][2] + r[2]>>

\* cwt_morlet coefficient of signal x at time point w
Coef(x, w) ==
    LET o == (w - 1) * Len(Wavelet)
    IN  CSum([t \in 1..Len(Wavelet) |->
                 <<x[o + t] * Wavelet[t][1], x[o + t] * Wavelet[t][2]>>],
             Len(Wavelet))

\* cross-spectrum and power of two signals at time point w
Csd(x, y, w) ==
    LET Conj(a) == <<a[1], -a[2]>>
    IN  CMul(Coef(x, w), Conj(Coef(y, w)))

Psd(x, w) ==
    Abs2(Coef(x, w))

\* the lower triangle of the dense connectivity matrix
ChannelPairs ==
    {p \in (1..n_channels) \X (1..n_channels) : p[1] > p[2]}

\* A connectivity value is kept as its square, the ratio num / den.
\* coh = |sum csd| / sqrt(sum psd_x * sum psd_y),  plv = |mean(csd / |csd|)|
ConValue(method, csd, psdx, psdy) ==
    LET n == Len(csd)
    IN  IF method = "coh"
        THEN [num |-> Abs2(CSum(csd, n)),
              den |-> SumOver(psdx, n) * SumOver(psdy, n)]
        ELSE [num |-> Abs2(CSum([k \in 1..n |-> Unit(csd[k])], n)),
              den |-> IF \E k \in 1..n : csd[k] = <<0, 0>> THEN 0 ELSE n * n]

\* spectral_connectivity_epochs(mode="cwt_morlet"): for every method, pair
\* and time point, the estimate over the epochs
SpectralConnectivityEpochs(d) ==
    [m \in 1..Len(connectivity_methods) |->
      [p \in ChannelPairs |->
        [w \in 1..Cardinality(TimePoints) |->
          ConValue(connectivity_methods[m],
                   [e \in 1..Len(d) |-> Csd(d[e][p[1]], d[e][p[2]], w)],
                   [e \in 1..Len(d) |-> Psd(d[e][p[1]], w)],
                   [e \in 1..Len(d) |-> Psd(d[e][p[2]], w)])]]]

\* spectral_connectivity_time: for every method, epoch and pair, the
\* estimate over the time points of the epoch
SpectralConnectivityTime(d) ==
    [m \in 1..Len(connectivity_methods) |->
      [e \in 1..Len(d) |->
        [p \in ChannelPairs |->
          ConValue(connectivity_methods[m],
                   [w \in 1..Cardinality(TimePoints) |->
                       Csd(d[e][p[1]], d[e][p[2]], w)],
                   [w \in 1..Cardinality(TimePoints) |-> Psd(d[e][p[1]], w)],
                   [w \in 1..Cardinality(TimePoints) |-> Psd(d[e][p[2]], w)])]]]

\* np.mean of connectivity values: the sum of the square roots of the terms
\* over their count; the terms are kept, the roots are not rational
Mean(terms) ==
    [sum_of_roots |-> terms, count |-> Len(terms)]

\* np.mean(con_epochs_array, axis=4)
MeanOverTime(con) ==
    [m \in DOMAIN con |-> [p \in ChannelPairs |-> Mean(con[m][p])]]

\* np.mean(con_time_array, axis=1)
MeanOverEpochs(con) ==
    [m \in DOMAIN con |->
      [p \in ChannelPairs |-> Mean([e \in DOMAIN con[m] |-> con[m][e][p]])]]

\* a connectivity value is defined (not nan) and at most 1
InUnitRange(v) ==
    v.den > 0 /\ v.num >= 0 /\ v.num <= v.den

\* every term is at most 1, so the mean is 1 exactly when every term is
MeanIsOne(mn) ==
    /\ mn.count > 0
    /\ \A k \in 1..mn.count :
         LET v == mn.sum_of_roots[k] IN v.den > 0 /\ v.num = v.den

\* what rng.random can put in one channel of one epoch: samples in [0, 1)
\* scaled to integers, with a non-zero coefficient at both time points
RandomSignals ==
    {  <<1, 0, 0, 0,  0, 1, 0, 0>>,
       <<0, 2, 0, 0,  0, 2, 0, 0>>,
       <<0, 0, 1, 0,  2, 0, 0, 0>>  }

OtherEpoch(d, i) ==
    d[i]

\* the right-hand side of data[i] = data[0]
FirstEpoch(d, i) ==
    d[1]

\* for i in range(n_epochs): data[i] = data[0]
RECURSIVE OverwriteLoop(_, _)
OverwriteLoop(d, i) ==
    IF i > Len(d) THEN d
    ELSE OverwriteLoop([d EXCEPT ![i] = FirstEpoch(d, i)], i + 1)

\* sin(k * pi/2), k = 0..3
SinTable ==
    <<0, 1, 0, -1>>

\* the random phases rng.random(1) * 10, in quarter turns
Phases ==
    {0, 1, 2}

SinusWithoutPhase(phase) ==
    [t \in 1..(Cardinality(TimePoints) * Len(SinTable)) |->
        SinTable[((t - 1) % Len(SinTable)) + 1]]

\* np.sin(np.linspace(-wave_freq*epoch_len*pi + phase,
\*                     wave_freq*epoch_len*pi + phase, n_times)):
\* a whole number of turns before the phase, one quarter turn per sample
Sinus(phase) ==
    [t \in 1..(Cardinality(TimePoints) * Len(SinTable)) |->
        SinTable[((t - 1 + phase) % Len(SinTable)) + 1]]

\* The phases are drawn from a continuum: no two channels keep the same
\* phase difference in every epoch.
DistinctDraws(ph) ==
    LET PhaseDiff(e, p) == (ph[e][p[1]] - ph[e][p[2]]) % Len(SinTable)
    IN  \A p \in ChannelPairs :
            \E e, f \in DOMAIN ph : PhaseDiff(e, p) # PhaseDiff(f, p)

\* case 1, cell 1: random data, every epoch overwritten with the first
SimulateCase1 ==
    /\ cstep = 0
    /\ \E d \in [1..SimEpochs -> [1..n_channels -> RandomSignals]] :
           simdata' = OverwriteLoop(d, 1)
    /\ cstep' = 1
    /\ UNCHANGED <<con_epochs_array, con_time_array>>
    /\ UNCHANGED <<kvars, svars, vvars, evars, rvars>>

\* case 1: connectivity over trials, one value per time point
Case1OverTrials ==
    /\ cstep = 1
    /\ con_epochs_array' = SpectralConnectivityEpochs(simdata)
    /\ cstep' = 2
    /\ UNCHANGED <<simdata, con_time_array>>
    /\ UNCHANGED <<kvars, svars, vvars, evars, rvars>>

\* case 1: average over time points, plot_con_matrix
Case1MeanOverTime ==
    /\ cstep = 2
    /\ con_epochs_array' = MeanOverTime(con_epochs_array)
    /\ cstep' = 3
    /\ UNCHANGED <<simdata, con_time_array>>
    /\ UNCHANGED <<kvars, svars, vvars, evars, rvars>>

\* case 1: connectivity over time, one value per epoch
Case1OverTime ==
    /\ cstep = 3
    /\ con_time_array' = SpectralConnectivityTime(simdata)
    /\ cstep' = 4
    /\ UNCHANGED <<simdata, con_epochs_array>>
    /\ UNCHANGED <<kvars, svars, vvars, evars, rvars>>

\* case 1: average over epochs, plot_con_matrix
Case1MeanOverEpochs ==
    /\ cstep = 4
    /\ con_time_array' = MeanOverEpochs(con_time_array)
    /\ cstep' = 5
    /\ UNCHANGED <<simdata, con_epochs_array>>
    /\ UNCHANGED <<kvars, svars, vvars, evars, rvars>>

\* case 2: every channel of every epoch becomes a sinusoid with its own phase
SimulateCase2 ==
    /\ cstep = 5
    /\ \E ph \in {q \in [1..SimEpochs -> [1..n_channels -> Phases]] :
                        DistinctDraws(q)} :
           simdata' = [i \in 1..SimEpochs |->
                         [c \in 1..n_channels |-> Sinus(ph[i][c])]]
    /\ cstep' = 6
    /\ UNCHANGED <<con_epochs_array, con_time_array>>
    /\ UNCHANGED <<kvars, svars, vvars, evars, rvars>>

\* case 2: connectivity over trials, averaged over time points
Case2OverTrials ==
    /\ cstep = 6
    /\ con_epochs_array' = MeanOverTime(SpectralConnectivityEpochs(simdata))
    /\ cstep' = 7
    /\ UNCHANGED <<simdata, con_time_array>>
    /\ UNCHANGED <<kvars, svars, vvars, evars, rvars>>

\* case 2: connectivity over time, averaged over epochs
Case2OverTime ==
    /\ cstep = 7
    /\ con_time_array' = MeanOverEpochs(SpectralConnectivityTime(simdata))
    /\ cstep' = 8
    /\ UNCHANGED <<simdata, con_epochs_array>>
    /\ UNCHANGED <<kvars, svars, vvars, evars, rvars>>

Case1Next ==
    \/ SimulateCase1
    \/ Case1OverTrials
    \/ Case1MeanOverTime
    \/ Case1OverTime
    \/ Case1MeanOverEpochs

InitCase1 ==
    KIdle /\ SIdle /\ VIdle /\ EIdle /\ RIdle /\ CIdle

SpecCase1 ==
    InitCase1 /\ [][Case1Next]_vars

Case2Next ==
    \/ SimulateCase2
    \/ Case2OverTrials
    \/ Case2OverTime

\* the random data of one run of case 1
Case1Draw ==
    [i \in 1..SimEpochs |->
      [c \in 1..n_channels |->
        IF c = 1 THEN <<1, 0, 0, 0,  0, 1, 0, 0>>
        ELSE IF c = i THEN <<0, 2, 0, 0,  0, 2, 0, 0>>
        ELSE <<0, 0, 1, 0,  2, 0, 0, 0>>]]

\* Case 2 starts in the state in which case 1 leaves the kernel; it
\* overwrites every sample of data and both connectivity arrays.
InitCase2 ==
    /\ KIdle /\ SIdle /\ VIdle /\ EIdle /\ RIdle
    /\ simdata = OverwriteLoop(Case1Draw, 1)
    /\ con_epochs_array = MeanOverTime(SpectralConnectivityEpochs(simdata))
    /\ con_time_array = MeanOverEpochs(SpectralConnectivityTime(simdata))
    /\ cstep = 5

SpecCase2 ==
    InitCase2 /\ [][Case2Next]_vars

\* every connectivity value computed so far is a number between 0 and 1
ConValuesInRange ==
    /\ cstep = 2 =>
         \A m \in DOMAIN con_epochs_array : \A p \in ChannelPairs :
           \A w \in DOMAIN con_epochs_array[m][p] :
             InUnitRange(con_epochs_array[m][p][w])
    /\ cstep \in {3, 4, 5, 6, 7, 8} =>
         \A m \in DOMAIN con_epochs_array : \A p \in ChannelPairs :
           \A k \in 1..con_epochs_array[m][p].count :
             InUnitRange(con_epochs_array[m][p].sum_of_roots[k])
    /\ cstep = 4 =>
         \A m \in DOMAIN con_time_array : \A e \in DOMAIN con_time_array[m] :
           \A p \in ChannelPairs : InUnitRange(con_time_array[m][e][p])
    /\ cstep \in {5, 6, 7, 8} =>
         \A m \in DOMAIN con_time_array : \A p \in ChannelPairs :
           \A k \in 1..con_time_array[m][p].count :
             InUnitRange(con_time_array[m][p].sum_of_roots[k])

\* C13: in simulated case 1, after the overwrite loop every epoch is an
\* exact replicate of the first epoch, and the connectivity over trials
\* averaged over time ('coh' and 'plv', alpha band) is exactly 1 between
\* every pair of distinct channels.
C13_ReplicatesFullyCoupled ==
    /\ cstep \in 1..5 =>
         \A i \in DOMAIN simdata : simdata[i] = simdata[1]
    /\ cstep \in 3..5 =>
         \A m \in DOMAIN con_epochs_array : \A p \in ChannelPairs :
           MeanIsOne(con_epochs_array[m][p])

\* case 1 has been plotted for three channels that are not copies of each
\* other, over more than one epoch
C13_Witness ==
    /\ cstep = 3
    /\ Len(simdata) > 1
    /\ \A p \in ChannelPairs : simdata[1][p[1]] # simdata[1][p[2]]
    /\ DOMAIN con_epochs_array = 1..Len(connectivity_methods)
    /\ \A m \in DOMAIN con_epochs_array : \A p \in ChannelPairs :
         MeanIsOne(con_epochs_array[m][p])

----------------------------------------------------------------------------
\* The kernel running one notebook.
Init ==
    KInit /\ SIdle /\ VIdle /\ EIdle /\ RIdle /\ CIdle

Next ==
    KNext

Spec ==
    Init /\ [][Next]_vars

====
